---- MODULE Spec2Model ----
(***************************************************************************)
(* Model of the sms-to-telegram gateway (kogeler/tooling): the supervisor  *)
(* loop run(), one modem session runModemLoop(), the poll cycle            *)
(* processMessages()/listSMSMessages(), the retrying sink forwarder        *)
(* sendToTelegramWithRetry() and the alert de-duplicator ErrorNotifier.    *)
(***************************************************************************)
EXTENDS Integers, Sequences, FiniteSets, TLC

(***************************************************************************)
(* Bounds of the model.                                                    *)
(***************************************************************************)
MaxIdx == 2        \* polling loop: the modem hands out the indices 1..MaxIdx
MaxChats == 2      \* polling loop: ChatIDs = <<1, .., n>> with n <= MaxChats
SessionIdx == 1    \* supervisor and sessions: the indices 1..SessionIdx
SessionChats == 1  \* supervisor and sessions: ChatIDs of at most SessionChats chats

(***************************************************************************)
(* Program constants.                                                      *)
(***************************************************************************)
maxRetries == 10                \* sendToTelegramWithRetry
baseDelay == 5                  \* seconds
maxDelay == 300                 \* seconds (5 minutes)
maxConsecutiveTimeouts == 3     \* runModemLoop
simAttempts == 5                \* runModemDiagnostics, AT+CPIN? retry loop

(***************************************************************************)
(* DiagnosticErrorType.                                                    *)
(***************************************************************************)
ErrTypeNone == "None"
ErrTypeSerialPort == "SerialPort"
ErrTypeModemNotResponding == "ModemNotResponding"
ErrTypeSimNotDetected == "SimNotDetected"
ErrTypeSimPinRequired == "SimPinRequired"
ErrTypeSimPukLocked == "SimPukLocked"
ErrTypeNetworkDenied == "NetworkDenied"
ErrTypeNetworkNotRegistered == "NetworkNotRegistered"
ErrTypeNoSignal == "NoSignal"

FailureTypes ==
  { ErrTypeSerialPort, ErrTypeModemNotResponding, ErrTypeSimNotDetected,
    ErrTypeSimPinRequired, ErrTypeSimPukLocked, ErrTypeNetworkDenied,
    ErrTypeNetworkNotRegistered, ErrTypeNoSignal }

DiagnosticErrorType == FailureTypes \cup {ErrTypeNone}

(***************************************************************************)
(* Transport failures (at.go) and their two classification predicates.     *)
(***************************************************************************)
ErrModemTimeout == "ErrModemTimeout"
ErrModemError == "ErrModemError"
ErrModemDisconnect == "ErrModemDisconnect"
ErrWriteFailed == "ErrWriteFailed"

TransportErrors == {ErrModemTimeout, ErrModemError, ErrModemDisconnect, ErrWriteFailed}

\* The outcomes of one modem.Command call: "ok" or a transport failure.
CommandOutcomes == {"ok"} \cup TransportErrors

IsTimeoutError(err) == err \in {ErrModemTimeout, ErrModemDisconnect}

\* A modem that has stopped answering: every command runs into its deadline or
\* finds the port gone.
DownOutcomes == {ErrModemTimeout, ErrModemDisconnect}

Outcomes(down) == IF down THEN DownOutcomes ELSE CommandOutcomes

IsModemError_Mut(err) == err \in {ErrModemError, ErrWriteFailed}

IsModemError(err) == err = ErrModemError

(***************************************************************************)
(* Config, as loadConfig validates it: chat list may be empty only in      *)
(* dry-run; MultipartMaxAge >= 0 (0 disables the stale sweep).             *)
(***************************************************************************)
\* NetworkRegGrace and the clock of a session are counted in registration
\* waits (one wait is 5 s); 0 disables the grace.
GraceValues == {0, 2}

Configs(maxChats) ==
  { c \in [DryRun : BOOLEAN, NumChats : 0..maxChats, MultipartMaxAge : 0..1,
            NetworkRegGrace : GraceValues] :
      c.NumChats = 0 => c.DryRun }

\* The configurations the sessions and the polling loop are run under.  In
\* dry-run the chat list is never read, so it is left empty there; the stale
\* sweep is exercised by the polling loop.
SessionConfigs ==
  { c \in Configs(SessionChats) :
      c.NetworkRegGrace = 2 /\ (c.DryRun => c.NumChats = 0) /\ c.MultipartMaxAge = 0 }

PollingConfigs ==
  { c \in Configs(MaxChats) : c.NetworkRegGrace = 2 /\ (c.DryRun => c.NumChats = 0) }

VARIABLES
  cfg,              \* Config of the process
  lastErrorType,    \* ErrorNotifier.lastErrorType
  lastCall,         \* the ErrorNotifier call of the latest step: its input and what it did
  cancelled,        \* ctx.Done() is closed
  modemDown,        \* the modem answers no command any more (timeout or disconnect)
  pc,               \* position of the single worker in run / runModemLoop / processMessages
  needReset,        \* run: reset the modem at the start of the next session
  verdict,          \* the DiagnosticError type runModemLoop returns (ErrTypeNone: none)
  prevEnding,       \* history: the verdict the previous session ended with
  resetIssued,      \* history: AT+CFUN=0 / AT+CFUN=1 were issued in this session
  diagCaller,       \* who runs runModemDiagnostics: "start", "handleError", "health"
  consecutiveTimeouts,
  store,            \* the modem's SMS storage: index -> content
  delivered,        \* history: indices whose message reached every destination
  rawMessages,      \* listSMSMessages: the parsed entries of this cycle's listing
  messages,         \* processMessages: the messages to forward
  indicesToDelete,  \* processMessages: the deletion list of the cycle
  msgPos,           \* index into messages of the message being forwarded
  chatPos,          \* sendToTelegramWithRetry: index into ChatIDs
  attempt,          \* sendToTelegramWithRetry: attempt number for the current chat
  delay,            \* sendToTelegramWithRetry: the backoff delay to wait next (seconds)
  lastWait,         \* history: the delay waited before the current attempt (0: none)
  sendErrors,       \* sendToTelegramWithRetry: chats that failed after all retries
  delPos,           \* index into indicesToDelete of the next entry of the deletion loop
  unique,           \* the deletion loop's set of indices already handled
  cycle,            \* history of the running poll cycle (sends, deletions, failure)
  cycleErr,         \* the error processMessages returned ("nil" or its class)
  diag,             \* a runModemDiagnostics call on its own: its inputs and its result
  atpc,             \* CommandWithTimeout: "idle", "loop" (reading), "done" (returned)
  call,             \* CommandWithTimeout: its arguments [cmd, timeout]
  clock,            \* time since the deadline was set, in ticks of 25 ms
  received,         \* history: what the reads of this call have returned so far
  lines,            \* CommandWithTimeout: the response lines collected
  noDataCount,      \* CommandWithTimeout: reads in a row that returned nothing
  ret,              \* what CommandWithTimeout returned: [lines, err]
  collector,        \* a MultipartCollector on its own: its parts map
  expected,         \* the parts sent to the modem: sender -> TotalParts (<<>>: none)
  arrived,          \* history: the parts added to the collector, in arrival order
  lastAdd,          \* the latest Add call: its argument and what it returned
  udh,              \* parseUDH on its own: the header bytes it is given
  parsed,           \* parseUDH: the multipart fields of the message afterwards
  septets           \* ParsePDU, 7-bit text after a header: [udhLen, udhSeptets, fillBits]

notifierVars == <<lastErrorType, lastCall>>

\* The state of the functions exercised on their own, outside a session.
atVars == <<atpc, call, clock, received, lines, noDataCount, ret>>

collVars == <<collector, expected, arrived, lastAdd>>

pduVars == <<udh, parsed, septets>>

unitVars == <<diag, atVars, collVars, pduVars>>

sendVars == <<msgPos, chatPos, attempt, delay, lastWait, sendErrors>>

cycleVars == <<rawMessages, messages, indicesToDelete, delPos, unique, cycle, cycleErr>>

sessionVars == <<needReset, verdict, prevEnding, resetIssued, diagCaller, consecutiveTimeouts>>

mainVars == <<cfg, modemDown, lastErrorType, lastCall, cancelled, pc, store, delivered,
              sendVars, cycleVars, sessionVars>>

vars == <<mainVars, unitVars>>

NoCall == [op |-> "none", kind |-> ErrTypeNone, before |-> ErrTypeNone,
           dispatched |-> FALSE, sent |-> FALSE, reached |-> {}, failed |-> {}]

(***************************************************************************)
(* ErrorNotifier.sendToTelegram: in dry-run nothing reaches the sink and   *)
(* the call succeeds; otherwise every chat is tried and the call succeeds  *)
(* iff no chat failed.  failed is the set of chats whose send fails.       *)
(***************************************************************************)
Chats(c) == 1..c.NumChats

NotifierSendOK_Mut(c, failed) == c.DryRun \/ failed # Chats(c)

NotifierSendOK(c, failed) == c.DryRun \/ failed = {}

\* The chats sendToTelegram calls SendMessage for.
SinkSends_Mut(c) == Chats(c)

SinkSends(c) == IF c.DryRun THEN {} ELSE Chats(c)

(***************************************************************************)
(* ErrorNotifier.NotifyError: result of one call, as                       *)
(* [last: the new lastErrorType, dispatched: an alert was handed to        *)
(*  sendToTelegram, sent: the return value].                               *)
(***************************************************************************)
NotifyErrorResult_Mut(c, last, kind, failed) ==
  IF last # ErrTypeNone
  THEN [last |-> last, dispatched |-> FALSE, sent |-> FALSE]
  ELSE IF NotifierSendOK(c, failed)
       THEN [last |-> kind, dispatched |-> TRUE, sent |-> TRUE]
       ELSE [last |-> last, dispatched |-> TRUE, sent |-> FALSE]

NotifyErrorResult(c, last, kind, failed) ==
  IF kind = last
  THEN [last |-> last, dispatched |-> FALSE, sent |-> FALSE]
  ELSE IF NotifierSendOK(c, failed)
       THEN [last |-> kind, dispatched |-> TRUE, sent |-> TRUE]
       ELSE [last |-> last, dispatched |-> TRUE, sent |-> FALSE]

(***************************************************************************)
(* ErrorNotifier.NotifyRecovery.                                           *)
(***************************************************************************)
NotifyRecoveryResult_Mut(c, last, failed) ==
  IF last = ErrTypeNone
  THEN [last |-> last, dispatched |-> FALSE, sent |-> FALSE]
  ELSE IF NotifierSendOK(c, failed)
       THEN [last |-> last, dispatched |-> TRUE, sent |-> TRUE]
       ELSE [last |-> last, dispatched |-> TRUE, sent |-> FALSE]

NotifyRecoveryResult(c, last, failed) ==
  IF last = ErrTypeNone
  THEN [last |-> last, dispatched |-> FALSE, sent |-> FALSE]
  ELSE IF NotifierSendOK(c, failed)
       THEN [last |-> ErrTypeNone, dispatched |-> TRUE, sent |-> TRUE]
       ELSE [last |-> last, dispatched |-> TRUE, sent |-> FALSE]

HasError(last) == last # ErrTypeNone

(***************************************************************************)
(* Contents of a storage slot.  A stored SMS is a single message, a PDU    *)
(* that ParsePDU rejects ("bad"), or one part of a concatenated message.   *)
(* "free" is a slot not yet used, "gone" one whose message was deleted.    *)
(***************************************************************************)
Slot(t, snd, r, p, n, txt) ==
  [type |-> t, sender |-> snd, ref |-> r, part |-> p, total |-> n, text |-> txt]

Free == Slot("free", "", 0, 0, 0, <<>>)
Gone == Slot("gone", "", 0, 0, 0, <<>>)
Single == Slot("single", "A", 0, 0, 1, <<"s">>)
Bad == Slot("bad", "unknown", 0, 0, 1, <<"raw">>)
Part1 == Slot("part", "A", 1, 1, 2, <<"p1">>)
Part2 == Slot("part", "A", 1, 2, 2, <<"p2">>)

\* What may arrive at the modem.
Arrivals == {Single, Bad, Part1, Part2}

Stored(st) == {i \in DOMAIN st : st[i].type \notin {"free", "gone"}}

(***************************************************************************)
(* listSMSMessages, first pass: the +CMGL entries in index order, each     *)
(* with the PDUMessage ParsePDU gives (a parse failure becomes a           *)
(* non-multipart placeholder message of sender "unknown").                 *)
(***************************************************************************)
\* What the first pass appends for a PDU that ParsePDU rejects: a message
\* of sender "unknown" whose text carries the error and the raw payload.
ParseErrorEntry_Mut(index, slot) == <<>>

ParseErrorEntry(index, slot) ==
  <<[Index |-> index,
     PDU |-> Slot("bad", "unknown", 0, 0, 1, <<"[PDU parse error]">> \o slot.text)]>>

RECURSIVE ListEntries(_, _)
ListEntries(st, i) ==
  IF i \notin DOMAIN st THEN <<>>
  ELSE IF i \in Stored(st)
       THEN (IF st[i].type = "bad"
             THEN ParseErrorEntry(i, st[i])
             ELSE <<[Index |-> i, PDU |-> st[i]]>>) \o ListEntries(st, i + 1)
       ELSE ListEntries(st, i + 1)

IsMultipart(pdu) == pdu.type = "part"

(***************************************************************************)
(* MultipartCollector.  parts maps a key <<sender, ref>> to a map from     *)
(* part number to [Index, PDU]; Add returns the new map, the assembled     *)
(* message (or none) and the indices of the parts it consumed.             *)
(***************************************************************************)
Key_Mut(pdu) == <<"", pdu.ref>>

Key(pdu) == <<pdu.sender, pdu.ref>>

RECURSIVE FullText(_, _, _)
FullText(group, i, total) ==
  IF i > total THEN <<>>
  ELSE (IF i \in DOMAIN group THEN group[i].PDU.text ELSE <<>>)
       \o FullText(group, i + 1, total)

\* The indices held by a group, in ascending part number.
RECURSIVE GroupIndices(_, _)
GroupIndices(group, left) ==
  IF left = {} THEN <<>>
  ELSE LET p == CHOOSE x \in left : \A y \in left : x <= y
       IN <<group[p].Index>> \o GroupIndices(group, left \ {p})

NoMessage == [none |-> TRUE]

Complete_Mut(group, pdu) == Cardinality(DOMAIN group) >= pdu.total - 1

Complete_Over(group, pdu) == Cardinality(DOMAIN group) > pdu.total

Complete(group, pdu) == Cardinality(DOMAIN group) = pdu.total

CollectorAdd(parts, index, pdu) ==
  IF ~IsMultipart(pdu)
  THEN [parts |-> parts, assembled |-> pdu, indices |-> <<index>>, panic |-> FALSE]
  ELSE
    LET key == Key(pdu)
        old == IF key \in DOMAIN parts THEN parts[key] ELSE << >>
        group == [p \in (DOMAIN old) \cup {pdu.part} |->
                    IF p = pdu.part THEN [Index |-> index, PDU |-> pdu] ELSE old[p]]
    IN IF Complete(group, pdu)
       THEN [parts |-> [k \in (DOMAIN parts) \ {key} |-> parts[k]],
             assembled |->
               IF 1 \in DOMAIN group
               THEN [type |-> "assembled", sender |-> group[1].PDU.sender,
                     ref |-> pdu.ref, part |-> 0, total |-> pdu.total,
                     text |-> FullText(group, 1, pdu.total)]
               ELSE NoMessage,
             indices |-> GroupIndices(group, DOMAIN group),
             panic |-> 1 \notin DOMAIN group]
       ELSE [parts |-> [k \in (DOMAIN parts) \cup {key} |->
                          IF k = key THEN group ELSE parts[k]],
             assembled |-> NoMessage, indices |-> <<>>, panic |-> FALSE]

Pending(parts) == Cardinality(DOMAIN parts)

\* The indices of the parts of the groups in keys.
RECURSIVE IndicesOfGroups(_, _)
IndicesOfGroups(parts, keys) ==
  IF keys = {} THEN <<>>
  ELSE LET k == CHOOSE x \in keys : TRUE
       IN GroupIndices(parts[k], DOMAIN parts[k]) \o IndicesOfGroups(parts, keys \ {k})

(***************************************************************************)
(* StaleIndices(maxAge, now): the indices of the parts of the groups whose *)
(* oldest part is older than maxAge.  old is the set of keys of the groups *)
(* that old: ages are wall-clock readings, an input of the model.          *)
(***************************************************************************)
StaleIndices(parts, old) == IndicesOfGroups(parts, old \cap DOMAIN parts)

(***************************************************************************)
(* listSMSMessages, second pass: thread the entries through the collector, *)
(* then append the stale indices when the sweep is enabled (maxAge > 0).   *)
(***************************************************************************)
\* Consumed is history: the stored indices the message was built from.
SMSMessage(index, pdu, multi, total, consumed) ==
  [Index |-> index, From |-> pdu.sender, Text |-> pdu.text,
   IsMultipart |-> multi, TotalParts |-> total, Consumed |-> consumed]

Range(q) == {q[i] : i \in DOMAIN q}

RECURSIVE Assemble(_, _, _)
Assemble(raws, i, acc) ==
  IF i > Len(raws) \/ acc.panic THEN acc
  ELSE
    LET raw == raws[i]
    IN IF IsMultipart(raw.PDU)
       THEN LET r == CollectorAdd(acc.parts, raw.Index, raw.PDU)
            IN IF r.panic
               THEN Assemble(raws, i + 1, [acc EXCEPT !.panic = TRUE])
               ELSE IF r.assembled # NoMessage
               THEN Assemble(raws, i + 1,
                      [parts |-> r.parts,
                       messages |-> Append(acc.messages,
                          SMSMessage(raw.Index, r.assembled, TRUE, raw.PDU.total,
                                     Range(r.indices))),
                       indicesToDelete |-> acc.indicesToDelete \o r.indices,
                       panic |-> FALSE])
               ELSE Assemble(raws, i + 1, [acc EXCEPT !.parts = r.parts])
       ELSE Assemble(raws, i + 1,
              [acc EXCEPT !.messages = Append(@, SMSMessage(raw.Index, raw.PDU, FALSE, 1,
                                                                {raw.Index})),
                          !.indicesToDelete = Append(@, raw.Index)])

StaleEnabled_Mut(maxAge) == TRUE

StaleEnabled(maxAge) == maxAge > 0

\* The stale indices are appended to the deletion list whatever it holds.
WithStale_Mut(indices, stale) == IF indices = <<>> THEN <<>> ELSE indices \o stale

WithStale(indices, stale) == indices \o stale

\* stale is history: what the sweep reported (nothing when it is not consulted).
listSMSMessages(raws, maxAge, old) ==
  LET r == Assemble(raws, 1,
             [parts |-> << >>, messages |-> <<>>, indicesToDelete |-> <<>>, panic |-> FALSE])
      stale == IF StaleEnabled(maxAge) THEN StaleIndices(r.parts, old) ELSE <<>>
  IN [messages |-> r.messages,
      indicesToDelete |->
        IF StaleEnabled(maxAge)
        THEN WithStale(r.indicesToDelete, stale)
        ELSE r.indicesToDelete,
      pending |-> DOMAIN r.parts,
      stale |-> stale,
      panic |-> r.panic]

(***************************************************************************)
(* runModemDiagnostics.  A script r holds the modem's answers:             *)
(*   at       outcome of the AT probe                                      *)
(*   simFails how many AT+CPIN? attempts fail before one answers           *)
(*   simStatus the text of the answer, ccid: AT+CCID succeeds              *)
(*   csq      the signal answer ("fail": command failed)                   *)
(*   creg     the answers of the successive AT+CREG? polls                 *)
(*   cancelAt the grace wait during which ctx is cancelled (0: never)      *)
(* The result is [verdict, cancelled, polls: number of AT+CREG? queries,   *)
(* simQueries: number of AT+CPIN? queries].                                *)
(***************************************************************************)
SimStatuses ==
  {"READY", "SIM PIN", "SIM PUK", "NOT INSERTED", "NOT READY", "OTHER", "NOMARKER"}

\* "fail": the command failed; "nomarker": no +CREG: line in the response;
\* "nostat": a +CREG: line without a second field; else the stat field.
RegAnswers == {"fail", "nomarker", "nostat", "0", "1", "2", "3", "4", "5", "6"}

\* strings.Contains over texts held as sequences of characters.
Contains(text, sub) ==
  \E i \in 0..(Len(text) - Len(sub)) : SubSeq(text, i + 1, i + Len(sub)) = sub

TxtMarker == <<"+", "C", "P", "I", "N", ":">>
TxtReady == <<"R", "E", "A", "D", "Y">>
TxtSimPin == <<"S", "I", "M", " ", "P", "I", "N">>
TxtSimPuk == <<"S", "I", "M", " ", "P", "U", "K">>
TxtNotInserted == <<"N", "O", "T", " ", "I", "N", "S", "E", "R", "T", "E", "D">>
TxtNotReady == <<"N", "O", "T", " ", "R", "E", "A", "D", "Y">>
TxtOther == <<"B", "U", "S", "Y">>

\* The joined AT+CPIN? response of each status.
SimText(status) ==
  CASE status = "NOMARKER" -> TxtReady
    [] status = "READY" -> TxtMarker \o <<" ">> \o TxtReady
    [] status = "SIM PIN" -> TxtMarker \o <<" ">> \o TxtSimPin
    [] status = "SIM PUK" -> TxtMarker \o <<" ">> \o TxtSimPuk
    [] status = "NOT INSERTED" -> TxtMarker \o <<" ">> \o TxtNotInserted
    [] status = "NOT READY" -> TxtMarker \o <<" ">> \o TxtNotReady
    [] OTHER -> TxtMarker \o <<" ">> \o TxtOther

\* The if/else-if chain over the joined response, in the order of the code.
SimVerdictOf(text) ==
  IF ~Contains(text, TxtMarker) THEN ErrTypeSimNotDetected
  ELSE IF Contains(text, TxtReady) THEN ErrTypeNone
  ELSE IF Contains(text, TxtSimPin) THEN ErrTypeSimPinRequired
  ELSE IF Contains(text, TxtSimPuk) THEN ErrTypeSimPukLocked
  ELSE IF Contains(text, TxtNotInserted) THEN ErrTypeSimNotDetected
  ELSE IF Contains(text, TxtNotReady) THEN ErrTypeSimNotDetected
  ELSE ErrTypeSimNotDetected

SimVerdict(status) == SimVerdictOf(SimText(status))

\* checkNetwork: what one AT+CREG? answer sets.
CregChecked_Mut(a) == a # "fail"

CregChecked(a) == a \notin {"fail", "nomarker"}
NetworkRegistered(a) == a \in {"1", "5"}
Waitable_Mut(a) == a = "2"

Waitable(a) == a \in {"0", "2", "4"}

Denied_Mut(a) == FALSE

Denied(a) == a = "3"

\* The grace loop goes on only while the session is younger than the grace.
WithinGrace_Mut(grace, elapsed) == grace > 0 /\ elapsed <= grace

WithinGrace(grace, elapsed) == grace > 0 /\ elapsed < grace

\* The answer to the i-th AT+CREG? of a script (the last answer repeats).
Answer(creg, i) == creg[IF i <= Len(creg) THEN i ELSE Len(creg)]

RECURSIVE RegLoop(_, _, _, _, _)
RegLoop(creg, i, grace, elapsed, cancelAt) ==
  LET a == Answer(creg, i)
      done(v) == [verdict |-> v, cancelled |-> FALSE, polls |-> i]
  IN IF Denied(a) THEN done(ErrTypeNetworkDenied)
     ELSE IF CregChecked(a) /\ ~NetworkRegistered(a) /\ WithinGrace(grace, elapsed)
             /\ Waitable(a)
     THEN IF cancelAt = i
          THEN [verdict |-> ErrTypeNone, cancelled |-> TRUE, polls |-> i]
          ELSE RegLoop(creg, i + 1, grace, elapsed + 1, cancelAt)
     ELSE IF CregChecked(a) /\ ~NetworkRegistered(a)
          THEN done(ErrTypeNetworkNotRegistered)
          ELSE done(ErrTypeNone)

\* The AT+CPIN? loop: attempts 1..simAttempts, left at the first success.
SimQueries_Mut(fails) == fails + 1

SimQueries(fails) == IF fails >= simAttempts THEN simAttempts ELSE fails + 1

\* The AT probe at the head of the diagnostics: any error of the command is
\* ErrTypeModemNotResponding.
ProbeVerdict_Mut(at) ==
  IF at = "ok" THEN ErrTypeNone
  ELSE IF at = ErrModemDisconnect THEN ErrTypeSerialPort
  ELSE ErrTypeModemNotResponding

ProbeVerdict(at) == IF at = "ok" THEN ErrTypeNone ELSE ErrTypeModemNotResponding

runModemDiagnostics(r, grace, elapsed) ==
  LET simQ == SimQueries(r.simFails)
      early(v, q) == [verdict |-> v, cancelled |-> FALSE, polls |-> 0, simQueries |-> q]
  IN IF ProbeVerdict(r.at) # ErrTypeNone THEN early(ProbeVerdict(r.at), 0)
     ELSE IF r.simFails >= simAttempts THEN early(ErrTypeSimNotDetected, simQ)
     ELSE IF SimVerdict(r.simStatus) # ErrTypeNone THEN early(SimVerdict(r.simStatus), simQ)
     ELSE IF r.csq = "99" THEN early(ErrTypeNoSignal, simQ)
     ELSE LET g == RegLoop(r.creg, 1, grace, elapsed, r.cancelAt)
          IN [verdict |-> g.verdict, cancelled |-> g.cancelled, polls |-> g.polls,
              simQueries |-> simQ]

Script(a, f, st, cc, q, g, c) ==
  [at |-> a, simFails |-> f, simStatus |-> st, ccid |-> cc, csq |-> q, creg |-> g,
   cancelAt |-> c]

\* The scripts a session draws from: every branch of the diagnostics.
SessionScripts ==
  {Script(a, 0, "READY", TRUE, "17", <<"1">>, 0) : a \in {"ok", ErrModemTimeout, ErrModemError}}
  \cup {Script("ok", simAttempts, "READY", cc, "17", <<"1">>, 0) : cc \in BOOLEAN}
  \cup {Script("ok", 0, st, TRUE, "17", <<"1">>, 0) : st \in SimStatuses}
  \cup {Script("ok", f, "READY", TRUE, "17", <<"1">>, 0) : f \in {1, simAttempts - 1}}
  \cup {Script("ok", 0, "READY", TRUE, q, <<"1">>, 0) : q \in {"99", "fail"}}
  \cup {Script("ok", 0, "READY", TRUE, "17", <<a>>, 0) : a \in RegAnswers}
  \cup {Script("ok", 0, "READY", TRUE, "17", <<"2", b>>, c) :
          b \in {"1", "2", "3"}, c \in {0, 1}}

\* The diagnostics of a session whose modem may have stopped answering: then
\* the AT probe fails.
Scripts(down) ==
  IF down
  THEN {Script(a, 0, "READY", TRUE, "17", <<"1">>, 0) : a \in DownOutcomes}
  ELSE SessionScripts

(***************************************************************************)
(* The state after construction: run() is about to enter its loop.         *)
(***************************************************************************)
NoCycle == [sendFailed |-> FALSE, deletes |-> {}, sentOK |-> {}, okChats |-> {},
            attempted |-> {}, stale |-> {}, issued |-> <<>>]

ResetTypes ==
  {ErrTypeSimNotDetected, ErrTypeSimPinRequired, ErrTypeSimPukLocked, ErrTypeNetworkDenied}

NoDiag == [phase |-> "idle"]

NoCmd == [cmd |-> "", timeout |-> 0]

\* An error is the chain errors.Is walks, outermost layer first; <<>> is nil.
NoRet == [lines |-> <<>>, err |-> <<>>]

AtIdle ==
  /\ atpc = "idle"
  /\ call = NoCmd
  /\ clock = 0
  /\ received = <<>>
  /\ lines = <<>>
  /\ noDataCount = 0
  /\ ret = NoRet

NoAdd == [none |-> TRUE]

CollIdle ==
  /\ collector = << >>
  /\ expected = << >>
  /\ arrived = <<>>
  /\ lastAdd = NoAdd

\* The multipart fields of a new PDUMessage.
NoHeader == [IsMultipart |-> FALSE, MultipartRef |-> 0, TotalParts |-> 0, PartNumber |-> 0]

NoAlign == [udhLen |-> 0, udhSeptets |-> 0, fillBits |-> 0]

PduIdle ==
  /\ udh = <<>>
  /\ parsed = NoHeader
  /\ septets = NoAlign

\* No function is being exercised on its own.
UnitIdle ==
  /\ diag = NoDiag
  /\ AtIdle
  /\ CollIdle
  /\ PduIdle

Fresh ==
  /\ lastErrorType = ErrTypeNone
  /\ lastCall = NoCall
  /\ cancelled = FALSE
  /\ modemDown = FALSE
  /\ needReset = FALSE
  /\ verdict = ErrTypeNone
  /\ prevEnding = ErrTypeNone
  /\ resetIssued = FALSE
  /\ diagCaller = "none"
  /\ consecutiveTimeouts = 0
  /\ delivered = {}
  /\ rawMessages = <<>>
  /\ messages = <<>>
  /\ indicesToDelete = <<>>
  /\ msgPos = 0
  /\ chatPos = 0
  /\ attempt = 0
  /\ delay = 0
  /\ lastWait = 0
  /\ sendErrors = {}
  /\ delPos = 0
  /\ unique = {}
  /\ cycle = NoCycle
  /\ cycleErr = "nil"
  /\ UnitIdle

Init ==
  /\ cfg \in SessionConfigs
  /\ store = [i \in 1..SessionIdx |-> Free]
  /\ pc = "run_top"
  /\ Fresh

\* The polling loop of the first session, entered with nothing stored yet:
\* the state in which the first processMessages call is made.
PollingInit ==
  /\ cfg \in PollingConfigs
  /\ store = [i \in 1..MaxIdx |-> Free]
  /\ pc = "list"
  /\ Fresh

(***************************************************************************)
(* Environment: the cancellation signal, and an SMS arriving at the modem  *)
(* (it takes the lowest slot never used; the modem is only observed by     *)
(* the list command, so arrivals are taken between timer actions).         *)
(***************************************************************************)
Cancel ==
  /\ ~cancelled
  /\ pc # "exit"
  /\ cancelled' = TRUE
  /\ UNCHANGED <<unitVars, cfg, modemDown, lastErrorType, lastCall, pc, store, delivered,
                 sendVars, cycleVars, sessionVars>>

Arrive ==
  /\ pc \in {"run_top", "select"}
  /\ \E i \in DOMAIN store, m \in Arrivals :
       /\ store[i] = Free
       /\ \A j \in DOMAIN store : j < i => store[j] # Free
       /\ store' = [store EXCEPT ![i] = m]
  /\ UNCHANGED <<unitVars, cfg, modemDown, lastErrorType, lastCall, cancelled, pc, delivered,
                 sendVars, cycleVars, sessionVars>>

(***************************************************************************)
(* run(): the supervisor loop.                                             *)
(***************************************************************************)
\* run: top of the loop with ctx cancelled.
RunCancelled ==
  /\ pc = "run_top"
  /\ cancelled
  /\ pc' = "exit"
  /\ UNCHANGED <<unitVars, cfg, modemDown, lastErrorType, lastCall, cancelled, store, delivered,
                 sendVars, cycleVars, sessionVars>>

\* runModemLoop: serial.OpenPort; a failure is returned as ErrTypeSerialPort.
OpenPort ==
  /\ pc = "run_top"
  /\ ~cancelled
  /\ \E opened \in BOOLEAN :
       IF opened
       THEN pc' = "opened" /\ verdict' = ErrTypeNone
       ELSE pc' = "session_end" /\ verdict' = ErrTypeSerialPort
  /\ UNCHANGED <<unitVars, cfg, modemDown, lastErrorType, lastCall, cancelled, store, delivered,
                 sendVars, cycleVars, needReset, prevEnding, resetIssued, diagCaller,
                 consecutiveTimeouts>>

\* run: which verdicts ask for a modem reset at the next session.
NeedsReset_Mut(v) == v \in ResetTypes \cup {ErrTypeModemNotResponding}

NeedsReset(v) == v \in ResetTypes

\* runModemLoop: the reset block (AT+CFUN=0, AT+CFUN=1, 3 x AT, ATE0), run when
\* needReset; then sessionStart is taken and the diagnostics are entered.
ResetWanted(flag) == flag

SessionStart ==
  /\ pc = "opened"
  /\ resetIssued' = ResetWanted(needReset)
  /\ pc' = "diag"
  /\ diagCaller' = "start"
  /\ UNCHANGED <<unitVars, cfg, modemDown, lastErrorType, lastCall, cancelled, store, delivered,
                 sendVars, cycleVars, needReset, verdict, prevEnding, consecutiveTimeouts>>

\* run: a session returned a DiagnosticError: notify, decide on the reset, wait.
RunHandleDiagError ==
  /\ pc = "session_end"
  /\ \E failed \in SUBSET Chats(cfg) :
       LET n == NotifyErrorResult(cfg, lastErrorType, verdict, failed)
       IN /\ lastErrorType' = n.last
          /\ lastCall' = [op |-> "error", kind |-> verdict, before |-> lastErrorType,
                          dispatched |-> n.dispatched, sent |-> n.sent,
                          reached |-> IF n.dispatched THEN SinkSends(cfg) ELSE {},
                          failed |-> IF n.dispatched THEN SinkSends(cfg) \cap failed
                                     ELSE {}]
  /\ needReset' = NeedsReset(verdict)
  /\ prevEnding' = verdict
  /\ verdict' = ErrTypeNone
  /\ resetIssued' = FALSE
  /\ consecutiveTimeouts' = 0
  /\ diagCaller' = "none"
  /\ diag' = NoDiag
  /\ pc' = "retry_wait"
  /\ UNCHANGED <<atVars, collVars, pduVars, cfg, modemDown, cancelled, store, delivered,
                 sendVars,
                 cycleVars>>

\* run: the retry wait elapsed.
RetryElapsed_Mut ==
  /\ pc = "retry_wait"
  /\ pc' = IF prevEnding = ErrTypeSerialPort THEN "exit" ELSE "run_top"
  /\ lastCall' = NoCall
  /\ UNCHANGED <<unitVars, cfg, modemDown, lastErrorType, cancelled, store, delivered,
                 sendVars, cycleVars, sessionVars>>

RetryElapsed ==
  /\ pc = "retry_wait"
  /\ pc' = "run_top"
  /\ lastCall' = NoCall
  /\ UNCHANGED <<unitVars, cfg, modemDown, lastErrorType, cancelled, store, delivered,
                 sendVars, cycleVars, sessionVars>>

\* run: the retry wait was interrupted by ctx.Done().
RetryCancelled ==
  /\ pc = "retry_wait"
  /\ cancelled
  /\ pc' = "exit"
  /\ lastCall' = NoCall
  /\ UNCHANGED <<unitVars, cfg, modemDown, lastErrorType, cancelled, store, delivered,
                 sendVars, cycleVars, sessionVars>>

(***************************************************************************)
(* runModemLoop: diagnostics, session setup, the polling loop.             *)
(***************************************************************************)
\* The session clock when the diagnostics start: 0 right after sessionStart
\* was taken, anything up to the grace (and beyond) later in the session.
ElapsedAt(caller, grace) == IF caller = "start" THEN {0} ELSE 0..grace

EndSession(v) ==
  /\ pc' = "session_end"
  /\ verdict' = v

\* What a healthy diagnostics run leads to, by caller: at the start the session
\* goes on ("setup"); in handleError the session ends anyway ("end"); in the
\* health check the polling goes on ("poll").
healthyDiagnostics_Mut(caller) ==
  CASE caller = "start" -> "setup"
    [] OTHER -> "poll"

healthyDiagnostics(caller) ==
  CASE caller = "start" -> "setup"
    [] caller = "handleError" -> "end"
    [] OTHER -> "poll"

\* diag keeps the verdict the diagnostics of handleError returned until run
\* has handled the session's verdict (history).
Diagnose ==
  /\ pc = "diag"
  /\ \E r \in Scripts(modemDown), el \in ElapsedAt(diagCaller, cfg.NetworkRegGrace) :
       LET d == runModemDiagnostics(r, cfg.NetworkRegGrace, el)
       IN /\ cancelled' = (cancelled \/ d.cancelled)
          /\ diag' = IF diagCaller = "handleError"
                     THEN [phase |-> "returned", verdict |-> d.verdict]
                     ELSE diag
          /\ IF d.verdict # ErrTypeNone
             THEN EndSession(d.verdict) /\ UNCHANGED consecutiveTimeouts
             ELSE CASE healthyDiagnostics(diagCaller) = "setup" ->
                         pc' = "setup" /\ UNCHANGED <<verdict, consecutiveTimeouts>>
                    [] healthyDiagnostics(diagCaller) = "end" ->
                         EndSession(ErrTypeModemNotResponding) /\ UNCHANGED consecutiveTimeouts
                    [] OTHER ->
                         pc' = "select" /\ consecutiveTimeouts' = 0 /\ UNCHANGED verdict
  /\ diagCaller' = "none"
  /\ UNCHANGED <<atVars, collVars, pduVars, cfg, modemDown, lastErrorType, lastCall, store,
                 delivered,
                 sendVars, cycleVars, needReset, prevEnding, resetIssued>>

\* After healthy start diagnostics: NotifyRecovery, AT+CMGF=0, AT+CPMS (failures
\* only logged), consecutiveTimeouts := 0, then the first processMessages.
SessionSetup ==
  /\ pc = "setup"
  /\ \E failed \in SUBSET Chats(cfg) :
       LET n == NotifyRecoveryResult(cfg, lastErrorType, failed)
       IN /\ lastErrorType' = n.last
          /\ lastCall' = [op |-> "recovery", kind |-> ErrTypeNone, before |-> lastErrorType,
                          dispatched |-> n.dispatched, sent |-> n.sent,
                          reached |-> IF n.dispatched THEN SinkSends(cfg) ELSE {},
                          failed |-> IF n.dispatched THEN SinkSends(cfg) \cap failed
                                     ELSE {}]
  /\ consecutiveTimeouts' = 0
  /\ prevEnding' = ErrTypeNone
  /\ resetIssued' = FALSE
  /\ pc' = "list"
  /\ UNCHANGED <<unitVars, cfg, modemDown, cancelled, store, delivered, sendVars, cycleVars,
                 needReset, verdict, diagCaller>>

\* The tickers and ctx.Done() are served by the select of the polling loop
\* alone, which the loop reaches only between two actions.
AtSelect_Mut(p) == p \in {"select", "send", "delete", "diag"}

AtSelect(p) == p = "select"

\* select: the poll ticker fired.
PollTick ==
  /\ AtSelect(pc)
  /\ pc' = "list"
  /\ UNCHANGED <<unitVars, cfg, modemDown, lastErrorType, lastCall, cancelled, store, delivered,
                 sendVars, cycleVars, sessionVars>>

\* select: the health ticker fired: modem.Ping() and what its error leads to:
\* "poll" (check passed, counter reset), "end" (return
\* ErrTypeModemNotResponding) or "diag" (run the diagnostics now).
healthCheck_Mut(err, count) ==
  IF err = "ok" THEN [count |-> 0, next |-> "poll"]
  ELSE IF IsTimeoutError(err)
  THEN [count |-> count + 1,
        next |-> IF count + 1 >= maxConsecutiveTimeouts THEN "end" ELSE "poll"]
  ELSE [count |-> count, next |-> "diag"]

healthCheck(err, count) ==
  IF err = "ok" THEN [count |-> 0, next |-> "poll"]
  ELSE IF IsTimeoutError(err) THEN [count |-> count, next |-> "end"]
  ELSE [count |-> count, next |-> "diag"]

HealthTick ==
  /\ AtSelect(pc)
  /\ \E out \in Outcomes(modemDown) :
       LET h == healthCheck(out, consecutiveTimeouts)
       IN /\ consecutiveTimeouts' = h.count
          /\ CASE h.next = "end" ->
                    EndSession(ErrTypeModemNotResponding) /\ UNCHANGED diagCaller
               [] h.next = "diag" ->
                    pc' = "diag" /\ diagCaller' = "health" /\ UNCHANGED verdict
               [] OTHER ->
                    pc' = "select" /\ UNCHANGED <<verdict, diagCaller>>
  /\ UNCHANGED <<unitVars, cfg, modemDown, lastErrorType, lastCall, cancelled, store, delivered,
                 sendVars, cycleVars, needReset, prevEnding, resetIssued>>

\* select: ctx.Done().
ExitPolling ==
  /\ pc = "select"
  /\ cancelled
  /\ pc' = "exit"
  /\ UNCHANGED <<unitVars, cfg, modemDown, lastErrorType, lastCall, cancelled, store, delivered,
                 sendVars, cycleVars, sessionVars>>

(***************************************************************************)
(* processMessages: list, forward every message, then delete.              *)
(***************************************************************************)
GroupKeys == {Key(m) : m \in {a \in Arrivals : a.type = "part"}}

\* The groups whose oldest part is older than maxAge when the sweep would run:
\* any of them, the ages being wall-clock readings.
AgedGroups(maxAge) == SUBSET GroupKeys

CycleReturn(err) ==
  /\ pc' = "cycle_ret"
  /\ cycleErr' = err

StartSending ==
  /\ msgPos' = 1
  /\ chatPos' = 1
  /\ attempt' = 1
  /\ delay' = baseDelay
  /\ lastWait' = 0
  /\ sendErrors' = {}

\* The AT+CMGL=4 response as the first pass reads it: one entry per +CMGL:
\* header line.  The modem lists every stored message once; when again is a
\* stored index the response holds that header and its PDU a second time.
ListResponse(st, again) ==
  ListEntries(st, 1) \o
    (IF again \in Stored(st)
     THEN SelectSeq(ListEntries(st, 1), LAMBDA e : e.Index = again)
     ELSE <<>>)

\* listSMSMessages (AT+CMGL=4) and the branch processMessages takes on its result.
\* In dry-run every send returns nil at once and the deletion is skipped.
ListWith(again) ==
  /\ pc = "list"
  /\ \E out \in Outcomes(modemDown) :
       IF out # "ok"
       THEN /\ CycleReturn(out)
            /\ cycle' = NoCycle
            /\ UNCHANGED <<rawMessages, messages, indicesToDelete, sendVars, delPos, unique>>
       ELSE \E old \in AgedGroups(cfg.MultipartMaxAge) :
            LET raws == ListResponse(store, again)
                r == listSMSMessages(raws, cfg.MultipartMaxAge, old)
            IN /\ rawMessages' = raws
               /\ cycle' = [NoCycle EXCEPT !.stale = Range(r.stale)]
               /\ messages' = r.messages
               /\ indicesToDelete' = r.indicesToDelete
               /\ IF r.panic
                  THEN pc' = "panic" /\ UNCHANGED <<cycleErr, sendVars, delPos, unique>>
                  ELSE IF Len(r.messages) = 0
                  THEN IF Len(r.indicesToDelete) = 0 \/ cfg.DryRun
                       THEN CycleReturn("nil") /\ UNCHANGED <<sendVars, delPos, unique>>
                       ELSE pc' = "delete" /\ delPos' = 1 /\ unique' = {}
                            /\ UNCHANGED <<cycleErr, sendVars>>
                  ELSE IF cfg.DryRun
                       THEN CycleReturn("nil") /\ UNCHANGED <<sendVars, delPos, unique>>
                       ELSE pc' = "send" /\ StartSending /\ UNCHANGED <<cycleErr, delPos, unique>>
  /\ lastCall' = NoCall
  /\ UNCHANGED <<unitVars, cfg, modemDown, lastErrorType, cancelled, store, delivered,
                 sessionVars>>

List == ListWith(0)

\* A poll cycle whose response may repeat one of the entries.
ListAgain == \E again \in {0} \cup Stored(store) : ListWith(again)

(***************************************************************************)
(* sendToTelegramWithRetry, one attempt per step.  The wait that follows   *)
(* a failed attempt is part of the step; a cancellation during the wait is *)
(* seen by the next step, which returns ctx.Err() like the wait does.      *)
(***************************************************************************)
Min(a, b) == IF a < b THEN a ELSE b

NextDelay(d) == Min(d * 2, maxDelay)

LastAttempt_Mut(n) == n = maxRetries + 1

LastAttempt(n) == n = maxRetries

\* The error sendToTelegramWithRetry returns once every chat was tried.
SendResult_Mut(errs) == "nil"

SendResult(errs) == IF errs # {} THEN "DeliveryFailed" ELSE "nil"

\* The chat loop goes on to the next chat whatever the outcome for this one.
MoreChats_Mut(chat, n, errs) == chat < n /\ errs = {}

MoreChats(chat, n, errs) == chat < n

\* The current chat is finished (sent, or retries exhausted) with errs the chats
\* failed so far and oks the chats that received the message.
FinishChat(errs, oks) ==
  IF MoreChats(chatPos, cfg.NumChats, errs)
  THEN /\ chatPos' = chatPos + 1
       /\ attempt' = 1
       /\ delay' = baseDelay
       /\ lastWait' = 0
       /\ sendErrors' = errs
       /\ cycle' = [cycle EXCEPT !.okChats = oks, !.attempted = @ \cup {chatPos}]
       /\ UNCHANGED <<pc, msgPos, cycleErr, delivered, delPos, unique>>
  ELSE IF SendResult(errs) # "nil"
  THEN /\ CycleReturn(SendResult(errs))
       /\ sendErrors' = errs
       /\ cycle' = [cycle EXCEPT !.okChats = oks, !.attempted = @ \cup {chatPos},
                                 !.sendFailed = TRUE]
       /\ UNCHANGED <<msgPos, chatPos, attempt, delay, lastWait, delivered, delPos, unique>>
  ELSE /\ cycle' = [cycle EXCEPT !.okChats = {}, !.attempted = {},
                                 !.sentOK = IF oks = Chats(cfg) THEN @ \cup {msgPos} ELSE @]
       /\ delivered' = IF oks = Chats(cfg)
                       THEN delivered \cup messages[msgPos].Consumed ELSE delivered
       /\ IF msgPos < Len(messages)
          THEN /\ msgPos' = msgPos + 1 /\ chatPos' = 1 /\ attempt' = 1
               /\ delay' = baseDelay /\ lastWait' = 0 /\ sendErrors' = {}
               /\ UNCHANGED <<pc, cycleErr, delPos, unique>>
          ELSE /\ pc' = "delete" /\ delPos' = 1 /\ unique' = {}
               /\ UNCHANGED <<cycleErr, sendVars>>

\* One iteration of the attempt loop: the ctx check, SendMessage, and on a
\* failure that is not the last attempt the backoff wait and the doubling.
SendAttempt ==
  /\ pc = "send"
  /\ IF cancelled
     THEN /\ CycleReturn("DeliveryFailed")
          /\ cycle' = [cycle EXCEPT !.sendFailed = TRUE]
          /\ UNCHANGED <<sendVars, delivered, delPos, unique>>
     ELSE \E sent \in BOOLEAN :
            IF sent
            THEN FinishChat(sendErrors, cycle.okChats \cup {chatPos})
            ELSE IF LastAttempt(attempt)
            THEN FinishChat(sendErrors \cup {chatPos}, cycle.okChats)
            ELSE /\ attempt' = attempt + 1
                 /\ lastWait' = delay
                 /\ delay' = NextDelay(delay)
                 /\ cycle' = [cycle EXCEPT !.attempted = @ \cup {chatPos}]
                 /\ UNCHANGED <<pc, msgPos, chatPos, sendErrors, cycleErr, delivered,
                                delPos, unique>>
  /\ UNCHANGED <<unitVars, cfg, modemDown, lastErrorType, lastCall, cancelled, store,
                 rawMessages, messages,
                 indicesToDelete, sessionVars>>

\* One iteration of the deletion loop: skip an index already handled, else
\* issue AT+CMGD=<idx>; a failure is logged and the loop goes on.  The modem
\* drops the message when the command succeeds.
SkipDuplicate_Mut(idx, seen) == FALSE

SkipDuplicate(idx, seen) == idx \in seen

\* The deletion loop ranges over the whole list.
MoreEntries_Mut(pos, list) == FALSE

MoreEntries(pos, list) == pos < Len(list)

\* What the deletion loop makes of the outcome of deleteSMS: a failure is
\* logged, nothing is returned.
DeleteError_Mut(out) == IF out \in TransportErrors THEN out ELSE "nil"

DeleteError(out) == "nil"

DeleteStep ==
  /\ pc = "delete"
  /\ LET idx == indicesToDelete[delPos]
     IN \E out \in (IF SkipDuplicate(idx, unique) THEN {"skip"}
                   ELSE Outcomes(modemDown)) :
          /\ IF out = "skip"
             THEN UNCHANGED <<store, unique, cycle>>
             ELSE /\ unique' = unique \cup {idx}
                  /\ cycle' = [cycle EXCEPT !.deletes = @ \cup {idx},
                                             !.issued = Append(@, idx)]
                  /\ store' = IF out = "ok" THEN [store EXCEPT ![idx] = Gone] ELSE store
          /\ IF DeleteError(out) # "nil"
             THEN CycleReturn(DeleteError(out)) /\ UNCHANGED delPos
             ELSE IF MoreEntries(delPos, indicesToDelete)
             THEN delPos' = delPos + 1 /\ UNCHANGED <<pc, cycleErr>>
             ELSE CycleReturn("nil") /\ UNCHANGED delPos
  /\ UNCHANGED <<unitVars, cfg, modemDown, lastErrorType, lastCall, cancelled, delivered,
                 rawMessages, messages,
                 indicesToDelete, sendVars, sessionVars>>

(***************************************************************************)
(* runModemLoop: what follows a processMessages call: handleError on an    *)
(* error, consecutiveTimeouts = 0 otherwise.  handleError gives the new    *)
(* counter and what to do: "poll" (keep polling), "end" (return            *)
(* ErrTypeModemNotResponding) or "diag" (run the diagnostics now).         *)
(***************************************************************************)
handleError_Threshold(err, count) ==
  IF IsTimeoutError(err)
  THEN [count |-> count + 1,
        next |-> IF count + 1 > maxConsecutiveTimeouts THEN "end" ELSE "poll"]
  ELSE IF IsModemError(err)
  THEN [count |-> count, next |-> "diag"]
  ELSE [count |-> count, next |-> "poll"]

handleError_CountsError(err, count) ==
  IF IsTimeoutError(err) \/ IsModemError(err)
  THEN [count |-> count + 1,
        next |-> IF count + 1 >= maxConsecutiveTimeouts THEN "end" ELSE "poll"]
  ELSE [count |-> count, next |-> "poll"]

handleError_ResetsOnOther(err, count) ==
  IF IsTimeoutError(err)
  THEN [count |-> count + 1,
        next |-> IF count + 1 >= maxConsecutiveTimeouts THEN "end" ELSE "poll"]
  ELSE IF IsModemError(err)
  THEN [count |-> count, next |-> "diag"]
  ELSE [count |-> 0, next |-> "poll"]

handleError(err, count) ==
  IF IsTimeoutError(err)
  THEN [count |-> count + 1,
        next |-> IF count + 1 >= maxConsecutiveTimeouts THEN "end" ELSE "poll"]
  ELSE IF IsModemError(err)
  THEN [count |-> count, next |-> "diag"]
  ELSE [count |-> count, next |-> "poll"]

HandleCycleResult ==
  /\ pc = "cycle_ret"
  /\ IF cycleErr = "nil"
     THEN /\ consecutiveTimeouts' = 0
          /\ pc' = "select"
          /\ UNCHANGED <<verdict, diagCaller>>
     ELSE LET h == handleError(cycleErr, consecutiveTimeouts)
          IN /\ consecutiveTimeouts' = h.count
             /\ CASE h.next = "end" ->
                       EndSession(ErrTypeModemNotResponding) /\ UNCHANGED diagCaller
                  [] h.next = "diag" ->
                       pc' = "diag" /\ diagCaller' = "handleError" /\ UNCHANGED verdict
                  [] OTHER ->
                       pc' = "select" /\ UNCHANGED <<verdict, diagCaller>>
  /\ rawMessages' = <<>>
  /\ messages' = <<>>
  /\ indicesToDelete' = <<>>
  /\ msgPos' = 0
  /\ chatPos' = 0
  /\ attempt' = 0
  /\ delay' = 0
  /\ lastWait' = 0
  /\ sendErrors' = {}
  /\ delPos' = 0
  /\ unique' = {}
  /\ cycle' = NoCycle
  /\ cycleErr' = "nil"
  /\ UNCHANGED <<unitVars, cfg, modemDown, lastErrorType, lastCall, cancelled, store, delivered,
                 needReset, prevEnding, resetIssued>>

Next ==
  \/ Cancel
  \/ Arrive
  \/ RunCancelled
  \/ OpenPort
  \/ SessionStart
  \/ Diagnose
  \/ SessionSetup
  \/ PollTick
  \/ HealthTick
  \/ ExitPolling
  \/ List
  \/ SendAttempt
  \/ DeleteStep
  \/ HandleCycleResult
  \/ RunHandleDiagError
  \/ RetryElapsed
  \/ RetryCancelled

Spec == Init /\ [][Next]_vars

\* The sessions of a gateway with destinations configured, in dry-run with
\* and without the stale sweep, and for comparison not in dry-run.
DryRunConfigs ==
  { c \in Configs(SessionChats) :
      /\ c.NetworkRegGrace = 2
      /\ c.NumChats >= 1
      /\ ~c.DryRun => (c.NumChats = 1 /\ c.MultipartMaxAge = 0) }

DryRunInit ==
  /\ cfg \in DryRunConfigs
  /\ store = [i \in 1..SessionIdx |-> Free]
  /\ pc = "run_top"
  /\ Fresh

DryRunSpec == DryRunInit /\ [][Next]_vars

\* The polling loop of one session, up to the point where the session ends or
\* hands over to the diagnostics.
PollingNext ==
  \/ Cancel
  \/ Arrive
  \/ PollTick
  \/ HealthTick
  \/ ExitPolling
  \/ List
  \/ SendAttempt
  \/ DeleteStep
  \/ HandleCycleResult

PollingSpec == PollingInit /\ [][PollingNext]_vars

(***************************************************************************)
(* The polling loop when the modem's listing may hold an entry twice (the  *)
(* response is whatever lines the port delivers before OK).                *)
(***************************************************************************)
RelistInit ==
  /\ cfg \in {c \in PollingConfigs : ~c.DryRun /\ c.NumChats = 1}
  /\ store = [i \in 1..MaxIdx |-> Free]
  /\ pc = "list"
  /\ Fresh

RelistNext ==
  \/ Cancel
  \/ Arrive
  \/ PollTick
  \/ HealthTick
  \/ ExitPolling
  \/ ListAgain
  \/ SendAttempt
  \/ DeleteStep
  \/ HandleCycleResult

RelistSpec == RelistInit /\ [][RelistNext]_vars

(***************************************************************************)
(* One session from its first processMessages call to its return: the      *)
(* polling loop with its health checks and the diagnostics it runs.        *)
(***************************************************************************)
LoopInit ==
  /\ cfg \in SessionConfigs
  /\ store = [i \in 1..SessionIdx |-> Free]
  /\ pc = "list"
  /\ Fresh

LoopNext ==
  \/ Cancel
  \/ Arrive
  \/ PollTick
  \/ HealthTick
  \/ ExitPolling
  \/ List
  \/ SendAttempt
  \/ DeleteStep
  \/ HandleCycleResult
  \/ Diagnose

LoopSpec == LoopInit /\ [][LoopNext]_vars

(***************************************************************************)
(* The gateway next to a modem that may stop answering for good, with the  *)
(* scheduling the runtime gives it: the single worker goroutine takes its  *)
(* next step whenever it has one, and a ticker or timer it waits on fires. *)
(* Cancellation and the modem's failure are up to the environment.         *)
(***************************************************************************)
\* The modem stops answering (hung, unplugged): from here on every command
\* ends in ErrModemTimeout or ErrModemDisconnect.
ModemDies ==
  /\ ~modemDown
  /\ pc \notin {"exit", "panic"}
  /\ modemDown' = TRUE
  /\ UNCHANGED <<unitVars, cfg, lastErrorType, lastCall, cancelled, pc, store, delivered,
                 sendVars, cycleVars, sessionVars>>

\* The steps the worker goroutine takes on its own: calls that return and
\* sleeps of fixed length (the backoff of the sends included).
Worker ==
  \/ RunCancelled
  \/ OpenPort
  \/ SessionStart
  \/ Diagnose
  \/ SessionSetup
  \/ ExitPolling
  \/ List
  \/ SendAttempt
  \/ DeleteStep
  \/ HandleCycleResult
  \/ RunHandleDiagError
  \/ RetryCancelled

LiveNext ==
  \/ Next
  \/ ModemDies

LiveSpec ==
  /\ Init
  /\ [][LiveNext]_vars
  /\ WF_vars(Worker)
  /\ WF_vars(PollTick)
  /\ WF_vars(HealthTick)
  /\ WF_vars(RetryElapsed)

(***************************************************************************)
(* The ErrorNotifier alone, under every sequence of NotifyError and        *)
(* NotifyRecovery calls, each with any outcome of the sends to the chats.  *)
(***************************************************************************)
NotifierInit ==
  /\ cfg \in PollingConfigs
  /\ store = [i \in 1..SessionIdx |-> Free]
  /\ pc = "run_top"
  /\ Fresh

CallNotifyError ==
  /\ \E kind \in FailureTypes, failed \in SUBSET Chats(cfg) :
       LET n == NotifyErrorResult(cfg, lastErrorType, kind, failed)
       IN /\ lastErrorType' = n.last
          /\ lastCall' = [op |-> "error", kind |-> kind, before |-> lastErrorType,
                          dispatched |-> n.dispatched, sent |-> n.sent,
                          reached |-> IF n.dispatched THEN SinkSends(cfg) ELSE {},
                          failed |-> IF n.dispatched THEN SinkSends(cfg) \cap failed
                                     ELSE {}]
  /\ UNCHANGED <<unitVars, cfg, modemDown, cancelled, pc, store, delivered, sendVars,
                 cycleVars, sessionVars>>

CallNotifyRecovery ==
  /\ \E failed \in SUBSET Chats(cfg) :
       LET n == NotifyRecoveryResult(cfg, lastErrorType, failed)
       IN /\ lastErrorType' = n.last
          /\ lastCall' = [op |-> "recovery", kind |-> ErrTypeNone, before |-> lastErrorType,
                          dispatched |-> n.dispatched, sent |-> n.sent,
                          reached |-> IF n.dispatched THEN SinkSends(cfg) ELSE {},
                          failed |-> IF n.dispatched THEN SinkSends(cfg) \cap failed
                                     ELSE {}]
  /\ UNCHANGED <<unitVars, cfg, modemDown, cancelled, pc, store, delivered, sendVars,
                 cycleVars, sessionVars>>

NotifierNext == CallNotifyError \/ CallNotifyRecovery

NotifierSpec == NotifierInit /\ [][NotifierNext]_vars

(***************************************************************************)
(* runModemDiagnostics on its own: any script of modem answers, any grace, *)
(* any age of the session when the diagnostics start.  The session itself  *)
(* is parked (run has returned).                                           *)
(***************************************************************************)
MaxGrace == 2
MaxPolls == 3

\* The process state while a function is exercised on its own.
Parked ==
  /\ cfg = [DryRun |-> TRUE, NumChats |-> 0, MultipartMaxAge |-> 0, NetworkRegGrace |-> 0]
  /\ store = [i \in 1..SessionIdx |-> Free]
  /\ pc = "exit"
  /\ Fresh

RECURSIVE SeqsUpTo(_, _)
SeqsUpTo(S, n) ==
  IF n = 0 THEN {<<>>}
  ELSE LET shorter == SeqsUpTo(S, n - 1)
       IN shorter \cup {Append(q, x) : q \in {t \in shorter : Len(t) = n - 1}, x \in S}

\* SIM-side scripts (registered at once) and registration-side scripts (SIM ready).
DiagScripts ==
  {Script(a, 0, "READY", TRUE, "17", <<"1">>, 0) : a \in CommandOutcomes}
  \cup {Script("ok", f, st, cc, q, <<"1">>, 0) :
          f \in {0, 1, simAttempts - 1, simAttempts}, st \in SimStatuses,
          cc \in BOOLEAN, q \in {"17", "99", "fail"}}
  \cup {Script("ok", 0, "READY", TRUE, "17", g, c) :
          g \in SeqsUpTo(RegAnswers, MaxPolls) \ {<<>>}, c \in 0..2}

DiagInit == Parked

RunDiagnostics ==
  /\ diag.phase = "idle"
  /\ \E r \in DiagScripts, grace \in 0..MaxGrace, el \in 0..(MaxGrace + 1) :
       diag' = [phase |-> "done", script |-> r, grace |-> grace, elapsed |-> el,
                result |-> runModemDiagnostics(r, grace, el)]
  /\ UNCHANGED <<mainVars, atVars, collVars, pduVars>>

DiagnosticsReturned ==
  /\ diag.phase = "done"
  /\ diag' = NoDiag
  /\ UNCHANGED <<mainVars, atVars, collVars, pduVars>>

DiagNext == RunDiagnostics \/ DiagnosticsReturned

DiagSpec == DiagInit /\ [][DiagNext]_vars

(***************************************************************************)
(* SimpleAT.CommandWithTimeout on its own, one read per step.  Time is     *)
(* counted in ticks of 25 ms.  A read returns nothing (no byte before the  *)
(* reader gives up) or the next piece of the stream: a line, or the bytes  *)
(* of a line whose end has not arrived (ReadString returns them with an    *)
(* error).  A read takes 0..MaxReadCost ticks.                             *)
(***************************************************************************)
MaxTimeout == 5
MaxStream == 3
MaxReadCost == 1
MaxWraps == 2

sliceTicks == 2      \* the 50 ms of maxNoData and of the sleep after an empty read

Cmds == {"AT", "AT+CSQ"}

CmePrefixed == {"+CME ERROR: 10"}
CmsPrefixed == {"+CMS ERROR: 500"}

\* The texts a read can carry, whitespace aside.
Bodies ==
  {"", "OK", "ERROR", "+CSQ: 17,0"} \cup Cmds \cup CmePrefixed \cup CmsPrefixed

\* A read with data: the text and whether its line end (CR LF) came with it.
RawReads == {r \in [body : Bodies, nl : BOOLEAN] : r.body # "" \/ r.nl}

TrimSpace(raw) == raw.body

Skipped_Mut(line, cmd) == line = ""

Skipped(line, cmd) == line = "" \/ line = cmd

HasCmePrefix_Mut(line) == FALSE

HasCmePrefix(line) == line \in CmePrefixed

HasCmsPrefix(line) == line \in CmsPrefixed


MaxNoData(timeout) ==
  IF timeout \div sliceTicks < 1 THEN 1 ELSE timeout \div sliceTicks

\* fmt.Errorf("...%w...", e): a layer of context around e.
WrapW(detail, err) == <<detail>> \o err

\* The error when too many reads in a row returned nothing.
NoDataError_Mut(ls) == <<ErrModemDisconnect>>

NoDataError(ls) ==
  IF Len(ls) = 0 THEN <<ErrModemDisconnect>>
  ELSE WrapW("after partial response", <<ErrModemTimeout>>)

\* The error when the loop ends without OK or ERROR.
NoOKError(ls) ==
  IF Len(ls) = 0 THEN <<ErrModemTimeout>>
  ELSE WrapW("got lines but no OK", <<ErrModemTimeout>>)

\* errors.Is against the sentinels, as IsTimeoutError and IsModemError use it.
ChainIsTimeout(err) == \E i \in DOMAIN err : IsTimeoutError(err[i])

ChainIsModemError(err) == \E i \in DOMAIN err : IsModemError(err[i])

AtReturn(ls, err) ==
  /\ atpc' = "done"
  /\ ret' = [lines |-> ls, err |-> err]

AtInit == Parked

\* The call: the command is written, the deadline is set.
AtStart ==
  /\ atpc = "idle"
  /\ \E cmd \in Cmds, t \in 1..MaxTimeout, wrote \in BOOLEAN :
       /\ call' = [cmd |-> cmd, timeout |-> t]
       /\ IF wrote
          THEN atpc' = "loop" /\ UNCHANGED ret
          ELSE AtReturn(<<>>, WrapW("write", <<ErrWriteFailed>>))
  /\ UNCHANGED <<mainVars, pduVars, collVars, diag, clock, received, lines, noDataCount>>

\* The loop condition fails: the deadline has passed.
DeadlinePassed ==
  /\ atpc = "loop"
  /\ clock >= call.timeout
  /\ AtReturn(<<>>, NoOKError(lines))
  /\ UNCHANGED <<mainVars, pduVars, collVars, diag, call, clock, received, lines, noDataCount>>

\* A read that returns nothing.
ReadNothing ==
  /\ atpc = "loop"
  /\ clock < call.timeout
  /\ noDataCount' = noDataCount + 1
  /\ \E cost \in 0..MaxReadCost :
       IF noDataCount + 1 > MaxNoData(call.timeout)
       THEN AtReturn(<<>>, NoDataError(lines)) /\ clock' = clock + cost
       ELSE clock' = clock + cost + sliceTicks /\ UNCHANGED <<atpc, ret>>
  /\ UNCHANGED <<mainVars, pduVars, collVars, diag, call, received, lines>>

\* A read that returns data.
ReadData ==
  /\ atpc = "loop"
  /\ clock < call.timeout
  /\ Len(received) < MaxStream
  /\ \E raw \in RawReads, cost \in 0..MaxReadCost :
       LET line == TrimSpace(raw)
       IN /\ received' = Append(received, raw)
          /\ clock' = clock + cost
          /\ noDataCount' = 0
          /\ IF Skipped(line, call.cmd)
             THEN UNCHANGED <<atpc, ret, lines>>
             ELSE IF line = "OK"
             THEN AtReturn(lines, <<>>) /\ UNCHANGED lines
             ELSE IF line = "ERROR"
             THEN AtReturn(<<>>, <<ErrModemError>>) /\ UNCHANGED lines
             ELSE IF HasCmePrefix(line) \/ HasCmsPrefix(line)
             THEN AtReturn(<<>>, WrapW(line, <<ErrModemError>>)) /\ UNCHANGED lines
             ELSE lines' = Append(lines, line) /\ UNCHANGED <<atpc, ret>>
  /\ UNCHANGED <<mainVars, pduVars, collVars, diag, call>>

\* A caller passes the error on inside its own (listSMSMessages, processMessages).
CallerWraps ==
  /\ atpc = "done"
  /\ ret.err # <<>>
  /\ Len(ret.err) <= MaxWraps
  /\ ret' = [ret EXCEPT !.err = WrapW("caller", @)]
  /\ UNCHANGED <<mainVars, pduVars, collVars, diag, atpc, call, clock, received, lines, noDataCount>>

\* The result is consumed; the next command can be sent.
AtDone ==
  /\ atpc = "done"
  /\ atpc' = "idle"
  /\ call' = NoCmd
  /\ clock' = 0
  /\ received' = <<>>
  /\ lines' = <<>>
  /\ noDataCount' = 0
  /\ ret' = NoRet
  /\ UNCHANGED <<mainVars, pduVars, collVars, diag>>

AtNext ==
  \/ AtStart
  \/ DeadlinePassed
  \/ ReadNothing
  \/ ReadData
  \/ CallerWraps
  \/ AtDone

AtSpec == AtInit /\ [][AtNext]_vars

(***************************************************************************)
(* MultipartCollector.Add on its own: concatenated messages of up to       *)
(* MaxParts parts, one per sender, are sent to the modem and their parts   *)
(* are added to a new collector one by one, each part once, the parts of   *)
(* the messages interleaved in any order.                                  *)
(***************************************************************************)
MaxParts == 3

Senders == {"A", "B"}

\* The text of a part: one character that names the sender and the part.
PartText(snd, p) == << <<snd, p>> >>

\* Part p of the n-part message of sender snd (reference number 1).
PartOf(snd, p, n) == Slot("part", snd, 1, p, n, PartText(snd, p))

\* The parts of the messages sent, and those of them not yet added.
PartsSent == {<<snd, p>> : snd \in DOMAIN expected, p \in 1..MaxParts} \cap
             {sp \in Senders \X (1..MaxParts) : sp[2] <= expected[sp[1]]}

PartsArrived == {<<arrived[i].sender, arrived[i].part>> : i \in DOMAIN arrived}

CollInit == Parked

\* NewMultipartCollector, and the messages whose parts will arrive.
NewCollector ==
  /\ UnitIdle
  /\ pc = "exit"
  /\ \E who \in (SUBSET Senders) \ {{}} :
       \E totals \in [who -> 1..MaxParts] : expected' = totals
  /\ collector' = << >>
  /\ UNCHANGED <<mainVars, pduVars, diag, atVars, arrived, lastAdd>>

\* collector.Add(msg) for a part that has not arrived yet.
AddPart ==
  /\ expected # << >>
  /\ \E sp \in PartsSent \ PartsArrived :
       LET pdu == PartOf(sp[1], sp[2], expected[sp[1]])
           r == CollectorAdd(collector, Len(arrived) + 1, pdu)
       IN /\ collector' = r.parts
          /\ arrived' = Append(arrived, pdu)
          /\ lastAdd' = [pdu |-> pdu, assembled |-> r.assembled, panic |-> r.panic]
  /\ UNCHANGED <<mainVars, pduVars, diag, atVars, expected>>

\* Every part was added: the collector is dropped.
CollectorDone ==
  /\ expected # << >>
  /\ PartsSent \subseteq PartsArrived
  /\ collector' = << >>
  /\ expected' = << >>
  /\ arrived' = <<>>
  /\ lastAdd' = NoAdd
  /\ UNCHANGED <<mainVars, pduVars, diag, atVars>>

CollNext ==
  \/ NewCollector
  \/ AddPart
  \/ CollectorDone

CollSpec == CollInit /\ [][CollNext]_vars

(***************************************************************************)
(* MultipartCollector.Add fed with whatever parseUDH can return: the       *)
(* header's total and part number are bytes taken as they are, so any part *)
(* number and any total may come with any sender, and nothing relates the  *)
(* headers of two parts.  A nil dereference ends the process.              *)
(***************************************************************************)
MaxAdds == 3

HeaderBytes == {0, 1, 2, 3}

CodecParts ==
  {PartOf(snd, p, n) : snd \in Senders, p \in HeaderBytes, n \in HeaderBytes}

AddAny ==
  /\ diag = NoDiag
  /\ AtIdle
  /\ PduIdle
  /\ pc = "exit"
  /\ expected = << >>
  /\ Len(arrived) < MaxAdds
  /\ lastAdd # NoAdd => ~lastAdd.panic
  /\ \E pdu \in CodecParts :
       LET r == CollectorAdd(collector, Len(arrived) + 1, pdu)
       IN /\ collector' = r.parts
          /\ arrived' = Append(arrived, pdu)
          /\ lastAdd' = [pdu |-> pdu, assembled |-> r.assembled, panic |-> r.panic]
  /\ UNCHANGED <<mainVars, pduVars, diag, atVars, expected>>

\* The collector is dropped (or the process has ended) and a new one made.
AnyDone ==
  /\ expected = << >>
  /\ arrived # <<>>
  /\ collector' = << >>
  /\ arrived' = <<>>
  /\ lastAdd' = NoAdd
  /\ UNCHANGED <<mainVars, pduVars, diag, atVars, expected>>

AnyNext ==
  \/ AddAny
  \/ AnyDone

AnySpec == CollInit /\ [][AnyNext]_vars

(***************************************************************************)
(* PDUMessage.parseUDH on its own.  A header is a sequence of bytes: the   *)
(* information elements one after the other, each an identifier, a length  *)
(* and that many bytes of data.  Positions are the code's 0-based ones.    *)
(***************************************************************************)
MaxUdh == 6

\* The identifiers 0x00 and 0x08 and the lengths 3 and 4 are among them.
HeaderValues == {0, 1, 2, 3, 4, 8}

Udhs == UNION {[1..n -> HeaderValues] : n \in 1..MaxUdh}

ByteAt(bytes, i) == bytes[i + 1]

\* The fields after the element of identifier iei whose data starts at pos.
WithElement(m, bytes, iei, iel, pos) ==
  IF iei = 0 /\ iel >= 3
  THEN [IsMultipart |-> TRUE,
        MultipartRef |-> ByteAt(bytes, pos),
        TotalParts |-> ByteAt(bytes, pos + 1),
        PartNumber |-> ByteAt(bytes, pos + 2)]
  ELSE IF iei = 8 /\ iel >= 4
  THEN [IsMultipart |-> TRUE,
        MultipartRef |-> ByteAt(bytes, pos) * 256 + ByteAt(bytes, pos + 1),
        TotalParts |-> ByteAt(bytes, pos + 2),
        PartNumber |-> ByteAt(bytes, pos + 3)]
  ELSE m

RECURSIVE parseUDHFrom(_, _, _)
parseUDHFrom(m, bytes, pos) ==
  IF pos >= Len(bytes) \/ pos + 1 >= Len(bytes) THEN m
  ELSE LET iei == ByteAt(bytes, pos)
           iel == ByteAt(bytes, pos + 1)
       IN IF pos + 2 + iel > Len(bytes) THEN m
          ELSE parseUDHFrom(WithElement(m, bytes, iei, iel, pos + 2),
                            bytes, pos + 2 + iel)

parseUDH(bytes) == parseUDHFrom(NoHeader, bytes, 0)

PduInit == Parked

\* msg.parseUDH(userData[1:udhLen]) on a new message.
ParseHeader ==
  /\ UnitIdle
  /\ pc = "exit"
  /\ \E bytes \in Udhs :
       /\ udh' = bytes
       /\ parsed' = parseUDH(bytes)
  /\ UNCHANGED <<mainVars, diag, atVars, collVars, septets>>

ParseDone ==
  /\ udh # <<>>
  /\ udh' = <<>>
  /\ parsed' = NoHeader
  /\ UNCHANGED <<mainVars, diag, atVars, collVars, septets>>

PduNext ==
  \/ ParseHeader
  \/ ParseDone

PduSpec == PduInit /\ [][PduNext]_vars

(***************************************************************************)
(* ParsePDU, the alignment of 7-bit text behind a user data header.        *)
(* udhLen is the header's length byte plus one, so 1..256; the declared    *)
(* length is reduced by udhSeptets and decodeGSM7Bit starts reading the    *)
(* bytes behind the header at bit fillBits.                                *)
(***************************************************************************)
UdhSeptets(udhLen) == (udhLen * 8 + 6) \div 7

FillBits_Mut(udhLen) == 7 - ((udhLen * 8) % 7)

FillBits(udhLen) == (7 - ((udhLen * 8) % 7)) % 7

\* A 7-bit message with a header whose length byte is b.
AlignText ==
  /\ UnitIdle
  /\ pc = "exit"
  /\ \E b \in 0..255 :
       septets' = [udhLen |-> b + 1, udhSeptets |-> UdhSeptets(b + 1),
                   fillBits |-> FillBits(b + 1)]
  /\ UNCHANGED <<mainVars, diag, atVars, collVars, udh, parsed>>

AlignDone ==
  /\ septets # NoAlign
  /\ septets' = NoAlign
  /\ UNCHANGED <<mainVars, diag, atVars, collVars, udh, parsed>>

AlignNext ==
  \/ AlignText
  \/ AlignDone

AlignSpec == PduInit /\ [][AlignNext]_vars

(***************************************************************************)
(* C6: NotifyError hands an alert to the sink exactly when the kind        *)
(* differs from the last announced kind; a suppressed call changes         *)
(* nothing, an alert that was sent makes its kind the announced one (so    *)
(* the same kind is suppressed next), and a kind is announced again once a *)
(* recovery or another kind has replaced it.                               *)
(***************************************************************************)
C6_AlertIffKindDiffers ==
  lastCall.op = "error" =>
    /\ lastCall.dispatched <=> (lastCall.kind # lastCall.before)
    /\ lastCall.sent => (lastCall.dispatched /\ lastErrorType = lastCall.kind)
    /\ ~lastCall.sent => lastErrorType = lastCall.before

\* A repeat of the announced kind was suppressed.
C6_Witness ==
  /\ lastCall.op = "error"
  /\ lastCall.before # ErrTypeNone
  /\ lastCall.kind = lastCall.before
  /\ ~lastCall.dispatched

(***************************************************************************)
(* C7 as stated: NotifyRecovery sends a notice exactly when a failure kind *)
(* is announced, and it then clears the announced kind.                    *)
(***************************************************************************)
C7_Original ==
  lastCall.op = "recovery" =>
    /\ lastCall.dispatched <=> (lastCall.before # ErrTypeNone)
    /\ lastCall.dispatched => lastErrorType = ErrTypeNone

(***************************************************************************)
(* C7 as amended: NotifyRecovery hands a notice to the sink exactly when a *)
(* failure kind is announced; it clears the announced kind when the notice *)
(* reached every chat and leaves it announced when a send failed; HasError *)
(* is false after a recovery that was sent and true after one that failed. *)
(***************************************************************************)
C7_RecoveryClearsWhenSent ==
  lastCall.op = "recovery" =>
    /\ lastCall.dispatched <=> (lastCall.before # ErrTypeNone)
    /\ lastCall.sent => (lastCall.dispatched /\ lastErrorType = ErrTypeNone
                         /\ ~HasError(lastErrorType))
    /\ ~lastCall.sent => (lastErrorType = lastCall.before
                          /\ (HasError(lastErrorType) <=> lastCall.dispatched))

\* A recovery was announced after a failure.
C7_Witness ==
  /\ lastCall.op = "recovery"
  /\ lastCall.before # ErrTypeNone
  /\ lastCall.sent
  /\ lastErrorType = ErrTypeNone

(***************************************************************************)
(* Vocabulary of the poll-cycle claims.                                    *)
(***************************************************************************)
InCycle == pc \in {"send", "delete", "cycle_ret"}

AllMessages == 1..Len(messages)

\* The listed entry of index i is a part whose group is not complete in the
\* listing: some part number 1..total of its <<sender, ref>> is not listed.
IncompletePart(i) ==
  \E k \in DOMAIN rawMessages :
    /\ rawMessages[k].Index = i
    /\ IsMultipart(rawMessages[k].PDU)
    /\ \E n \in 1..rawMessages[k].PDU.total :
         \A j \in DOMAIN rawMessages :
           ~(/\ IsMultipart(rawMessages[j].PDU)
             /\ Key(rawMessages[j].PDU) = Key(rawMessages[k].PDU)
             /\ rawMessages[j].PDU.part = n)

\* The indices of the parts the collector still holds once the listing has
\* gone through it: the parts of the groups left incomplete in this cycle.
LeftPending ==
  LET r == Assemble(rawMessages, 1,
             [parts |-> << >>, messages |-> <<>>, indicesToDelete |-> <<>>, panic |-> FALSE])
  IN Range(IndicesOfGroups(r.parts, DOMAIN r.parts))

(***************************************************************************)
(* C1: within a poll cycle, AT+CMGD is issued only once every message of   *)
(* the cycle has been sent to every chat, and after a failed (or           *)
(* cancelled) send no deletion command is issued in the cycle at all.      *)
(***************************************************************************)
C1_DeleteOnlyAfterAllSent ==
  /\ pc = "delete" => cycle.sentOK = AllMessages
  /\ cycle.deletes # {} => (cycle.sentOK = AllMessages /\ ~cycle.sendFailed)
  /\ cycle.sendFailed => (cycle.deletes = {} /\ pc = "cycle_ret" /\ cycleErr # "nil")

\* A cycle failed at its second message after the first was forwarded, and
\* nothing was deleted.
C1_Witness ==
  /\ pc = "cycle_ret"
  /\ cycle.sendFailed
  /\ cycle.sentOK = {1}
  /\ cfg.NumChats = 2
  /\ cycle.deletes = {}

(***************************************************************************)
(* C2 as stated: at the end of every poll cycle the deleted indices are    *)
(* exactly the delivered ones.                                             *)
(***************************************************************************)
C2_Original ==
  pc = "select" => \A i \in DOMAIN store : (store[i] = Gone) <=> (i \in delivered)

(***************************************************************************)
(* C2 as amended: an index is deleted only if its message was delivered to *)
(* every chat in that cycle or, with the stale sweep enabled, it is a part *)
(* of an incomplete group; a cycle that returns success has issued the     *)
(* deletion command for every index of every message it delivered (an     *)
(* index whose command failed, or whose cycle failed at a later message,   *)
(* stays stored and is forwarded again).                                   *)
(***************************************************************************)
C2_DeletedOnlyIfDelivered ==
  /\ \A i \in cycle.deletes :
       i \in delivered \/ (cfg.MultipartMaxAge > 0 /\ i \in LeftPending)
  /\ \A i \in DOMAIN store :
       store[i] = Gone => (i \in delivered \/ cfg.MultipartMaxAge > 0)
  /\ (pc = "cycle_ret" /\ cycleErr = "nil" /\ ~cfg.DryRun) =>
       \A m \in AllMessages : messages[m].Consumed \subseteq cycle.deletes
  /\ cfg.DryRun => delivered = {}

\* Both parts of a message were delivered and deleted, and the cycle is over.
C2_Witness ==
  /\ pc = "cycle_ret"
  /\ cycleErr = "nil"
  /\ delivered = {1, 2}
  /\ store[1] = Gone
  /\ store[2] = Gone
  /\ Len(messages) = 1

(***************************************************************************)
(* C3: with the stale sweep disabled (MultipartMaxAge = 0) the deletion    *)
(* list never holds the index of a part whose group is incomplete (a part  *)
(* number is missing from the listing, or the collector still holds the    *)
(* group after the listing): every index in it was consumed by a message   *)
(* of this cycle, a single-part one or a group completed in this cycle.    *)
(***************************************************************************)
C3_NoIncompletePartDeleted ==
  (cfg.MultipartMaxAge = 0 /\ InCycle) =>
    \A k \in DOMAIN indicesToDelete :
      /\ ~IncompletePart(indicesToDelete[k])
      /\ indicesToDelete[k] \notin LeftPending
      /\ \E m \in AllMessages : indicesToDelete[k] \in messages[m].Consumed

\* A lone part is listed next to a single message: only the latter is deleted.
C3_Witness ==
  /\ cfg.MultipartMaxAge = 0
  /\ pc = "delete"
  /\ Len(rawMessages) = 2
  /\ IncompletePart(1)
  /\ LeftPending = {1}
  /\ indicesToDelete = <<2>>

(***************************************************************************)
(* C4 as stated: once a chat has failed after its last attempt, no send is *)
(* attempted to a chat that comes after it in the list.                    *)
(***************************************************************************)
C4_Original ==
  InCycle => \A c \in sendErrors : \A d \in cycle.attempted \cup cycle.okChats : d <= c

(***************************************************************************)
(* C4 as amended: a chat that fails after its last attempt does not stop   *)
(* the chat loop: the later chats are attempted in order, and only then    *)
(* (or at cancellation) the message is reported failed, no later message   *)
(* is sent, nothing is deleted and the cycle returns a delivery failure.   *)
(***************************************************************************)
C4_FailureAfterAllChatsTried ==
  /\ (pc = "send" /\ sendErrors # {}) => \A c \in sendErrors : c < chatPos
  /\ (pc = "cycle_ret" /\ sendErrors # {}) =>
       /\ cycleErr = "DeliveryFailed"
       /\ ~cancelled => (/\ cycle.attempted = Chats(cfg)
                         /\ cycle.okChats = Chats(cfg) \ sendErrors)
       /\ cycle.okChats \subseteq cycle.attempted \ sendErrors
       /\ msgPos \notin cycle.sentOK
       /\ cycle.sentOK = 1..(msgPos - 1)
       /\ cycle.deletes = {}
  /\ pc = "delete" => sendErrors = {}

\* The first chat failed after its last attempt, the second received the
\* message, and the cycle returned a delivery failure.
C4_Witness ==
  /\ pc = "cycle_ret"
  /\ sendErrors = {1}
  /\ cycle.attempted = {1, 2}
  /\ cycle.okChats = {2}
  /\ cycleErr = "DeliveryFailed"

RECURSIVE Pow2(_)
Pow2(k) == IF k = 0 THEN 1 ELSE 2 * Pow2(k - 1)

\* The send attempts the current message can still make after the current one.
SendRank == (cfg.NumChats - chatPos) * maxRetries + (maxRetries - attempt)

(***************************************************************************)
(* C5: a message gets at most maxRetries attempts per chat, the wait       *)
(* before attempt k+1 is min(baseDelay * 2^(k-1), maxDelay), a chat is     *)
(* left at its first successful attempt, and every step of the attempt     *)
(* loop lowers the number of attempts still possible, which starts below   *)
(* maxRetries * (number of chats): the loop ends within that many attempts.*)
(***************************************************************************)
C5_BoundedBackoff ==
  /\ [](pc = "send" =>
          /\ attempt \in 1..maxRetries
          /\ chatPos \in 1..cfg.NumChats
          /\ SendRank \in 0..(maxRetries * cfg.NumChats - 1)
          /\ lastWait = IF attempt = 1 THEN 0
                        ELSE Min(baseDelay * Pow2(attempt - 2), maxDelay)
          /\ delay = Min(baseDelay * Pow2(attempt - 1), maxDelay)
          /\ chatPos \notin cycle.okChats)
  /\ [][(pc = "send" /\ <<msgPos, chatPos, attempt, pc>>' # <<msgPos, chatPos, attempt, pc>>) =>
          \/ pc' = "send" /\ msgPos' = msgPos /\ SendRank' < SendRank
          \/ pc' = "send" /\ msgPos' = msgPos + 1 /\ chatPos' = 1 /\ attempt' = 1
          \/ pc' \in {"delete", "cycle_ret"}]_vars

\* The second chat is at its last attempt, reached after the capped wait.
C5_Witness ==
  /\ pc = "send"
  /\ chatPos = 2
  /\ attempt = maxRetries
  /\ lastWait = maxDelay
  /\ SendRank = 0

(***************************************************************************)
(* C8: handling a poll cycle that failed with a timeout or a disconnect    *)
(* adds one to consecutiveTimeouts; the session ends with                  *)
(* ErrTypeModemNotResponding exactly when that brings the counter to       *)
(* maxConsecutiveTimeouts, and goes on polling when it brings it to 1 or 2.*)
(***************************************************************************)
C8_ThirdTimeoutEndsSession ==
  [][(/\ pc = "cycle_ret"
      /\ pc' # "cycle_ret"
      /\ cycleErr \in {ErrModemTimeout, ErrModemDisconnect}) =>
       /\ consecutiveTimeouts' = consecutiveTimeouts + 1
       /\ consecutiveTimeouts' \in 1..3
       /\ consecutiveTimeouts' = 3 =>
            (pc' = "session_end" /\ verdict' = ErrTypeModemNotResponding)
       /\ consecutiveTimeouts' \in {1, 2} =>
            (pc' = "select" /\ verdict' = ErrTypeNone)]_vars

\* The third failed cycle in a row has just ended the session.
C8_Witness ==
  /\ pc = "session_end"
  /\ verdict = ErrTypeModemNotResponding
  /\ consecutiveTimeouts = 3

(***************************************************************************)
(* C9: handling a poll cycle that failed with a modem ERROR enters the     *)
(* diagnostics at once (as part of handling that cycle) and leaves         *)
(* consecutiveTimeouts as it was, through the diagnostics too.             *)
(***************************************************************************)
C9_DeviceErrorRunsDiagnostics ==
  /\ [][(pc = "cycle_ret" /\ pc' # "cycle_ret" /\ cycleErr = ErrModemError) =>
          /\ pc' = "diag"
          /\ diagCaller' = "handleError"
          /\ consecutiveTimeouts' = consecutiveTimeouts]_vars
  /\ [][(pc = "diag" /\ diagCaller = "handleError" /\ pc' # "diag") =>
          /\ pc' = "session_end"
          /\ verdict' # ErrTypeNone
          /\ consecutiveTimeouts' = consecutiveTimeouts]_vars

\* A modem ERROR after two timeouts: the diagnostics run, the counter is 2.
C9_Witness ==
  /\ pc = "diag"
  /\ diagCaller = "handleError"
  /\ consecutiveTimeouts = 2

(***************************************************************************)
(* C10 as stated: every session that starts, be it one whose serial port   *)
(* could not be opened, issues the reset exactly when the previous session *)
(* ended with one of ResetTypes.                                           *)
(***************************************************************************)
C10_Original ==
  (\/ pc = "diag" /\ diagCaller = "start"
   \/ pc = "session_end" /\ verdict = ErrTypeSerialPort) =>
    (resetIssued <=> prevEnding \in ResetTypes)

(***************************************************************************)
(* C10 as amended: a session whose serial port opened issues the reset,    *)
(* before its diagnostics, exactly when the previous session ended with    *)
(* one of ResetTypes; a session whose port cannot be opened issues no      *)
(* reset whatever the previous ending, and the request is then dropped.    *)
(***************************************************************************)
C10_ResetIffPortOpened ==
  /\ (pc = "diag" /\ diagCaller = "start") =>
       (resetIssued <=> prevEnding \in ResetTypes)
  /\ (pc = "session_end" /\ verdict = ErrTypeSerialPort) => ~resetIssued
  /\ pc \in {"run_top", "opened", "retry_wait"} => ~resetIssued
  /\ pc \in {"run_top", "opened"} => (needReset <=> prevEnding \in ResetTypes)

\* The session after a denied registration enters its diagnostics reset.
C10_Witness ==
  /\ pc = "diag"
  /\ diagCaller = "start"
  /\ prevEnding = ErrTypeNetworkDenied
  /\ resetIssued

(***************************************************************************)
(* Vocabulary of the diagnostics claims, over a finished call.             *)
(***************************************************************************)
\* The SIM is ready and there is signal: the call gets to the registration.
SimReadyRun ==
  /\ diag.phase = "done"
  /\ diag.script.at = "ok"
  /\ diag.script.simFails < simAttempts
  /\ diag.script.simStatus = "READY"
  /\ diag.script.csq # "99"

Unregistered == {"0", "2", "4"}

\* The waits the grace leaves room for when the diagnostics start.
WaitsLeft == IF diag.grace > diag.elapsed THEN diag.grace - diag.elapsed ELSE 0

\* ctx is not cancelled during the first n waits.
NotCancelledIn(n) == diag.script.cancelAt = 0 \/ diag.script.cancelAt > n

(***************************************************************************)
(* C11: with the SIM ready, when the first k-1 registration answers are    *)
(* searching, not registered or unknown (in any mix), the k-th is          *)
(* registered (home or roaming) and the waits before it began within the   *)
(* grace, the diagnostics make exactly k queries and return no error.      *)
(***************************************************************************)
C11_RegisteredWithinGrace ==
  SimReadyRun =>
    \A k \in 2..Len(diag.script.creg) :
      (/\ \A j \in 1..(k - 1) : diag.script.creg[j] \in Unregistered
       /\ diag.script.creg[k] \in {"1", "5"}
       /\ k - 1 <= WaitsLeft
       /\ NotCancelledIn(k - 1)) =>
        /\ diag.result.verdict = ErrTypeNone
        /\ ~diag.result.cancelled
        /\ diag.result.polls = k

\* Searching, then not registered, then registered at home, within the grace.
C11_Witness ==
  /\ SimReadyRun
  /\ diag.script.creg = <<"2", "0", "1">>
  /\ diag.grace = 2
  /\ diag.elapsed = 0
  /\ diag.result.verdict = ErrTypeNone
  /\ diag.result.polls = 3

(***************************************************************************)
(* C12: with the SIM ready, when every registration answer is searching,   *)
(* not registered or unknown, the diagnostics return                       *)
(* ErrTypeNetworkNotRegistered after one query per wait the grace leaves   *)
(* room for plus the first one: a single query, without any wait, when     *)
(* the grace is 0 or the session is already as old as the grace.           *)
(***************************************************************************)
C12_NotRegisteredAfterGrace ==
  (/\ SimReadyRun
   /\ \A j \in DOMAIN diag.script.creg : diag.script.creg[j] \in Unregistered
   /\ NotCancelledIn(WaitsLeft)) =>
    /\ diag.result.verdict = ErrTypeNetworkNotRegistered
    /\ diag.result.polls = WaitsLeft + 1
    /\ (diag.grace = 0 \/ diag.elapsed >= diag.grace) => diag.result.polls = 1

\* Two waits, three unregistered answers, and the grace is over.
C12_Witness ==
  /\ SimReadyRun
  /\ diag.script.creg = <<"2", "4", "0">>
  /\ diag.grace = 2
  /\ diag.elapsed = 0
  /\ diag.result.verdict = ErrTypeNetworkNotRegistered
  /\ diag.result.polls = 3

(***************************************************************************)
(* C13: a denied registration answer ends the diagnostics with             *)
(* ErrTypeNetworkDenied at the query that gets it, the first one or a      *)
(* re-poll of the grace loop, and that query is the last one made.         *)
(***************************************************************************)
C13_DeniedIsTerminal ==
  SimReadyRun =>
    /\ \A k \in 1..Len(diag.script.creg) :
         (/\ diag.script.creg[k] = "3"
          /\ \A j \in 1..(k - 1) : diag.script.creg[j] \in Unregistered
          /\ k - 1 <= WaitsLeft
          /\ NotCancelledIn(k - 1)) =>
           (diag.result.verdict = ErrTypeNetworkDenied /\ diag.result.polls = k)
    /\ \A j \in 1..(diag.result.polls - 1) : Answer(diag.script.creg, j) # "3"
    /\ diag.result.verdict = ErrTypeNetworkDenied
         <=> (~diag.result.cancelled
              /\ Answer(diag.script.creg, diag.result.polls) = "3")

\* Denied on the first re-poll: the third answer is never asked for.
C13_Witness ==
  /\ SimReadyRun
  /\ diag.script.creg = <<"2", "3", "1">>
  /\ diag.grace = 2
  /\ diag.elapsed = 0
  /\ diag.result.verdict = ErrTypeNetworkDenied
  /\ diag.result.polls = 2

(***************************************************************************)
(* C14 as stated: a response with the +CPIN: marker is decided by its      *)
(* status text: READY goes on, SIM PIN gives ErrTypeSimPinRequired, SIM    *)
(* PUK gives ErrTypeSimPukLocked, and NOT INSERTED, NOT READY and any      *)
(* other text give ErrTypeSimNotDetected.                                  *)
(***************************************************************************)
C14_StatusDecides ==
  (/\ diag.phase = "done"
   /\ diag.script.at = "ok"
   /\ diag.script.simFails < simAttempts
   /\ diag.script.simStatus # "NOMARKER") =>
    CASE diag.script.simStatus = "READY" ->
           diag.result.verdict \notin
             {ErrTypeSimNotDetected, ErrTypeSimPinRequired, ErrTypeSimPukLocked}
      [] diag.script.simStatus = "SIM PIN" ->
           diag.result.verdict = ErrTypeSimPinRequired
      [] diag.script.simStatus = "SIM PUK" ->
           diag.result.verdict = ErrTypeSimPukLocked
      [] OTHER -> diag.result.verdict = ErrTypeSimNotDetected

(***************************************************************************)
(* Vocabulary of the transport claims, over a returned call.               *)
(***************************************************************************)
\* The sentinel an error is built around: the innermost layer of the chain.
Root(err) == err[Len(err)]

\* The command was written and the call has returned.
Returned == atpc = "done" /\ Root(<<"nil">> \o ret.err) # ErrWriteFailed

\* A text that ends the call: a terminal token or a vendor error line.
Ending(body) == body \in {"OK", "ERROR"} \cup CmePrefixed \cup CmsPrefixed

\* A text that is collected as a response line of command cmd.
ResponseLine(body, cmd) == body # "" /\ body # cmd /\ ~Ending(body)

\* The texts received before the last read, in arrival order.
BodiesBeforeLast == [i \in 1..(Len(received) - 1) |-> received[i].body]

IsResponse(body) == ResponseLine(body, call.cmd)

\* The error is as the call returned it: no caller has wrapped it yet.
Direct == "caller" \notin Range(ret.err)

(***************************************************************************)
(* C15: a call on a stream that yields no byte returns           *)
(* ErrModemDisconnect, whatever the timeout.                               *)
(***************************************************************************)
C15_SilentStreamDisconnected ==
  (Returned /\ received = <<>>) => Root(<<"nil">> \o ret.err) = ErrModemDisconnect

C17_ErrorLineFailsAtOnce ==
  /\ atpc = "loop" =>
       \A i \in DOMAIN received :
         received[i].body \notin {"ERROR"} \cup CmePrefixed \cup CmsPrefixed
  /\ (Returned /\ Direct /\ received # <<>>) =>
       LET last == received[Len(received)].body
       IN /\ last \in CmePrefixed \cup CmsPrefixed =>
               (ret.err = <<last, ErrModemError>> /\ ret.lines = <<>>)
          /\ last = "ERROR" => (ret.err = <<ErrModemError>> /\ ret.lines = <<>>)

\* A response line was collected, then a +CME ERROR line came.
C17_Witness ==
  /\ Returned
  /\ Len(received) = 2
  /\ received[1].body = "+CSQ: 17,0"
  /\ lines = <<"+CSQ: 17,0">>
  /\ ret = [lines |-> <<>>, err |-> <<"+CME ERROR: 10", ErrModemError>>]

(***************************************************************************)
(* C18: a call that reads OK returns, without error, the texts received    *)
(* before OK that are not empty and not the command text, in arrival       *)
(* order: so the echo of the command, when there is one, changes nothing.  *)
(***************************************************************************)
C18_OKReturnsLines ==
  (Returned /\ received # <<>> /\ received[Len(received)].body = "OK") =>
    /\ ret.err = <<>>
    /\ ret.lines = SelectSeq(BodiesBeforeLast, IsResponse)
    /\ call.cmd \notin Range(ret.lines)

\* The echo, a response line, then OK.
C18_Witness ==
  /\ Returned
  /\ call.cmd = "AT+CSQ"
  /\ Len(received) = 3
  /\ received[1].body = "AT+CSQ"
  /\ received[3].body = "OK"
  /\ ret = [lines |-> <<"+CSQ: 17,0">>, err |-> <<>>]

(***************************************************************************)
(* C19: every error a call returns, as returned or wrapped by its callers, *)
(* is in exactly one class: built around ErrModemTimeout or                *)
(* ErrModemDisconnect it is a timeout error and not a modem error, around  *)
(* ErrModemError (with or without detail) a modem error and not a timeout  *)
(* error, around ErrWriteFailed neither; none is both.                     *)
(***************************************************************************)
C19_OneClassPerError ==
  (atpc = "done" /\ ret.err # <<>>) =>
    /\ Root(ret.err) \in TransportErrors
    /\ ChainIsTimeout(ret.err)
         <=> Root(ret.err) \in {ErrModemTimeout, ErrModemDisconnect}
    /\ ChainIsModemError(ret.err) <=> Root(ret.err) = ErrModemError
    /\ ~(ChainIsTimeout(ret.err) /\ ChainIsModemError(ret.err))
    /\ Root(ret.err) = ErrWriteFailed =>
         (~ChainIsTimeout(ret.err) /\ ~ChainIsModemError(ret.err))

\* A write failure wrapped by a caller.
C19_Witness ==
  /\ atpc = "done"
  /\ ret.err = <<"caller", "write", ErrWriteFailed>>

(***************************************************************************)
(* Vocabulary of the collector claim.                                      *)
(***************************************************************************)
\* The parts of the message of sender snd that have not been added yet.
Missing(snd) == {p \in 1..expected[snd] : <<snd, p>> \notin PartsArrived}

\* The texts of the parts of sender snd's message, in ascending part number.
AscendingText(snd) == [p \in 1..expected[snd] |-> PartText(snd, p)[1]]

(***************************************************************************)
(* C20: whatever the order in which the parts of a message are added       *)
(* (also interleaved with the parts of another message), Add returns a     *)
(* message exactly on the call that supplies the last missing part and     *)
(* nothing on the earlier calls; the text of that message is the texts of  *)
(* the parts in ascending part number, so it is the same for every arrival *)
(* order, and the group is then gone from the collector.                   *)
(***************************************************************************)
C20_AssembledOnLastPart ==
  lastAdd # NoAdd =>
    LET snd == lastAdd.pdu.sender
    IN /\ lastAdd.assembled # NoMessage <=> Missing(snd) = {}
       /\ lastAdd.assembled # NoMessage =>
            /\ lastAdd.assembled.text = AscendingText(snd)
            /\ lastAdd.assembled.sender = snd
            /\ Key(lastAdd.pdu) \notin DOMAIN collector
       /\ lastAdd.assembled = NoMessage => Key(lastAdd.pdu) \in DOMAIN collector
       /\ Pending(collector) = Cardinality({s \in DOMAIN expected :
                                 Missing(s) # {} /\ Missing(s) # 1..expected[s]})

\* A three-part message whose parts arrived in the order 3, 1, 2.
C20_Witness ==
  /\ Len(arrived) = 3
  /\ arrived[1] = PartOf("A", 3, 3)
  /\ arrived[2] = PartOf("A", 1, 3)
  /\ arrived[3] = PartOf("A", 2, 3)
  /\ lastAdd.assembled # NoMessage
  /\ lastAdd.assembled.text = <<<<"A", 1>>, <<"A", 2>>, <<"A", 3>>>>

\* The characters of a text that come from a part of sender snd.
TextOfSender(text, snd) == \A i \in DOMAIN text : text[i][1] = snd

(***************************************************************************)
(* C21: the parts of two senders that use the same reference number are    *)
(* kept in separate groups, whatever the interleaving: a group holds only  *)
(* parts of its own sender, a message is returned for a sender exactly     *)
(* when that sender's own parts have all arrived, its text holds only that *)
(* sender's parts, and while both messages are incomplete Pending is 2.    *)
(***************************************************************************)
C21_SendersIsolated ==
  /\ \A k \in DOMAIN collector :
       /\ \A p \in DOMAIN collector[k] : collector[k][p].PDU.sender = k[1]
       /\ DOMAIN collector[k] = (1..expected[k[1]]) \ Missing(k[1])
  /\ lastAdd # NoAdd =>
       /\ lastAdd.assembled # NoMessage <=> Missing(lastAdd.pdu.sender) = {}
       /\ lastAdd.assembled # NoMessage =>
            /\ TextOfSender(lastAdd.assembled.text, lastAdd.pdu.sender)
            /\ Len(lastAdd.assembled.text) = expected[lastAdd.pdu.sender]
  /\ (/\ DOMAIN expected = Senders
      /\ \A s \in Senders : Missing(s) \notin {{}, 1..expected[s]}) =>
       Pending(collector) = 2

\* Part 1 of each of two two-part messages with the same reference arrived.
C21_Witness ==
  /\ arrived = <<PartOf("A", 1, 2), PartOf("B", 1, 2)>>
  /\ Key(arrived[1]) # Key(arrived[2])
  /\ arrived[1].ref = arrived[2].ref
  /\ Pending(collector) = 2
  /\ lastAdd.assembled = NoMessage

\* The latest Add found its group complete: the group has left the collector.
Completed == lastAdd # NoAdd /\ Key(lastAdd.pdu) \notin DOMAIN collector

(***************************************************************************)
(* C22: whenever Add finds the group complete (as many parts held as the   *)
(* added part's TotalParts), it returns an assembled message with the      *)
(* sender of part 1, for every sequence of parts parseUDH can produce.     *)
(***************************************************************************)
C22_CompletionReturnsMessage ==
  Completed =>
    /\ ~lastAdd.panic
    /\ lastAdd.assembled # NoMessage
    /\ lastAdd.assembled.sender = lastAdd.pdu.sender

(***************************************************************************)
(* C30: every message parseUDH marks as multipart has TotalParts >= 1 and  *)
(* 1 <= PartNumber <= TotalParts, for the 8-bit and the 16-bit reference   *)
(* element alike.                                                          *)
(***************************************************************************)
C30_PartNumberInRange ==
  parsed.IsMultipart =>
    /\ parsed.TotalParts >= 1
    /\ 1 <= parsed.PartNumber
    /\ parsed.PartNumber <= parsed.TotalParts

(***************************************************************************)
(* C23: once ctx is cancelled, no step issues a further modem command: not *)
(* the session setup (AT+CMGF=0, AT+CPMS, with NotifyRecovery before       *)
(* them), not a listing (AT+CMGL=4), not a health check (AT), not a        *)
(* deletion (AT+CMGD).                                                     *)
(***************************************************************************)
C23_CancelStopsCommands ==
  [][cancelled => ~(SessionSetup \/ List \/ HealthTick \/ DeleteStep)]_vars

\* No timer action is under way: nothing listed, no send, deletion or
\* diagnostics pending, no result waiting to be handled.
Quiescent ==
  /\ rawMessages = <<>>
  /\ messages = <<>>
  /\ indicesToDelete = <<>>
  /\ msgPos = 0
  /\ delPos = 0
  /\ cycle = NoCycle
  /\ cycleErr = "nil"
  /\ diagCaller = "none"

(***************************************************************************)
(* C24: one worker runs everything: a timer event (poll tick, health-check *)
(* tick) is taken only when no timer action is under way, so an action     *)
(* with its nested diagnostics, retries and deletions runs to completion   *)
(* before the next one starts, and every step belongs to the one position  *)
(* the worker is at.                                                       *)
(***************************************************************************)
C24_OneActionAtATime ==
  /\ [](pc = "select" => Quiescent)
  /\ [][(pc' = "list" /\ pc # "list") =>
          (pc \in {"select", "setup"} /\ Quiescent)]_vars
  /\ [][(pc = "select" /\ pc' # pc) =>
          pc' \in {"list", "diag", "session_end", "exit"}]_vars
  /\ [][(pc \in {"list", "send", "delete", "cycle_ret", "diag"} /\ pc' # pc) =>
          pc' \in {"send", "delete", "cycle_ret", "diag", "select", "session_end",
                   "panic", "setup"}]_vars

\* Diagnostics nested in a poll action (handleError) are under way.
C24_Witness ==
  /\ pc = "diag"
  /\ diagCaller = "handleError"
  /\ consecutiveTimeouts > 0

(***************************************************************************)
(* C25: in dry-run, with destinations configured, no AT+CMGD is issued (no *)
(* deletion step is ever entered, no stored message disappears), no        *)
(* message is sent to a chat, and neither a failure nor a recovery         *)
(* notification reaches a chat, also in cycles that found only stale       *)
(* parts.                                                                  *)
(***************************************************************************)
C25_DryRunSideEffectFree ==
  cfg.DryRun =>
    /\ pc \notin {"send", "delete"}
    /\ cycle.deletes = {}
    /\ cycle.attempted = {}
    /\ cycle.okChats = {}
    /\ delivered = {}
    /\ \A i \in DOMAIN store : store[i] # Gone
    /\ lastCall.reached = {}

\* A dry-run cycle found nothing but a stale part and returned.
C25_Witness ==
  /\ cfg.DryRun
  /\ cfg.NumChats >= 1
  /\ pc = "cycle_ret"
  /\ messages = <<>>
  /\ indicesToDelete # <<>>
  /\ cfg.MultipartMaxAge > 0

(***************************************************************************)
(* C26: a session that ended with a verdict is followed by nothing but the *)
(* NotifyError call for that verdict and then the retry wait; a new        *)
(* session starts only from the retry wait; a verdict never ends run,      *)
(* which returns only once ctx is cancelled.                               *)
(***************************************************************************)
C26_VerdictNotifiedNeverFatal ==
  /\ [](pc = "exit" => cancelled)
  /\ [](pc = "session_end" <=> verdict # ErrTypeNone)
  /\ [][(pc = "session_end" /\ pc' # pc) =>
          /\ pc' = "retry_wait"
          /\ lastCall'.op = "error"
          /\ lastCall'.kind = verdict
          /\ lastCall'.dispatched <=> (verdict # lastErrorType)
          /\ prevEnding' = verdict]_vars
  /\ [][(pc = "retry_wait" /\ pc' # pc) =>
          (pc' = "run_top" \/ (pc' = "exit" /\ cancelled))]_vars
  /\ [][(pc' = "run_top" /\ pc # pc') => pc = "retry_wait"]_vars

\* A session ended with a denied registration; the alert was sent, the
\* supervisor waits to retry.
C26_Witness ==
  /\ pc = "retry_wait"
  /\ ~cancelled
  /\ prevEnding = ErrTypeNetworkDenied
  /\ lastCall.op = "error"
  /\ lastCall.kind = ErrTypeNetworkDenied
  /\ lastCall.sent

\* The listing of this cycle succeeded and its result is being processed.
Listed == InCycle /\ rawMessages # <<>>

\* Message m forwards the stored entry i alone, with text txt.
Forwards(m, i, txt) ==
  /\ m.Index = i
  /\ m.Text = txt
  /\ ~m.IsMultipart
  /\ m.Consumed = {i}

(***************************************************************************)
(* C27: a listed entry whose PDU fails to decode is forwarded as a message *)
(* of sender "unknown" whose text carries the failure and the raw payload, *)
(* and its index is put on the deletion list; the single messages of the   *)
(* same listing are forwarded and scheduled as usual, and the messages     *)
(* keep the order of the listing.                                          *)
(***************************************************************************)
C27_DecodeFailureForwarded ==
  Listed =>
    /\ \A i \in DOMAIN store :
         /\ store[i].type = "bad" =>
              /\ \E k \in AllMessages :
                   /\ Forwards(messages[k], i, <<"[PDU parse error]">> \o store[i].text)
                   /\ messages[k].From = "unknown"
              /\ i \in Range(indicesToDelete)
         /\ store[i].type = "single" =>
              /\ \E k \in AllMessages :
                   /\ Forwards(messages[k], i, store[i].text)
                   /\ messages[k].From = store[i].sender
              /\ i \in Range(indicesToDelete)
    /\ \A k, l \in AllMessages : k < l => messages[k].Index < messages[l].Index

\* An undecodable entry and a single message were listed together and both
\* were forwarded: the deletion loop is about to start.
C27_Witness ==
  /\ pc = "delete"
  /\ delPos = 1
  /\ store[1] = Bad
  /\ store[2] = Single
  /\ Len(messages) = 2
  /\ messages[1].Text = <<"[PDU parse error]", "raw">>
  /\ indicesToDelete = <<1, 2>>

\* The entries of the deletion list the loop has been through.
Handled == {indicesToDelete[k] : k \in 1..(delPos - 1)}

\* The indices whose AT+CMGD failed in this cycle: issued, the message still there.
FailedDeletes == {i \in cycle.deletes : store[i] # Gone}

(***************************************************************************)
(* C28: in the deletion loop a failed AT+CMGD, whatever the transport      *)
(* failure, stops nothing: a command is issued for every index of the      *)
(* list (once per index), and the cycle returns nil however many of them   *)
(* failed.                                                                 *)
(***************************************************************************)
C28_DeleteFailureNotFatal ==
  /\ pc = "delete" => (cycle.deletes = Handled /\ cycleErr = "nil")
  /\ (pc = "cycle_ret" /\ cycle.deletes # {}) =>
       /\ cycle.deletes = Range(indicesToDelete)
       /\ cycleErr = "nil"
  /\ (InCycle /\ FailedDeletes # {}) => cycleErr = "nil"

\* The first deletion failed, the second was issued and succeeded, and the
\* cycle returned nil.
C28_Witness ==
  /\ pc = "cycle_ret"
  /\ cycleErr = "nil"
  /\ indicesToDelete = <<1, 2>>
  /\ FailedDeletes = {1}
  /\ store[2] = Gone

\* The stored indices the messages of this cycle were built from.
ConsumedIndices == UNION {messages[k].Consumed : k \in AllMessages}

(***************************************************************************)
(* C29: with the stale sweep enabled (MultipartMaxAge > 0) the indices the *)
(* sweep reports, all of them parts of groups left incomplete, are on the  *)
(* deletion list next to the indices the messages consumed, and a command  *)
(* is issued for each of them when the cycle deletes, also in a cycle      *)
(* without any complete message; with MultipartMaxAge = 0 the sweep        *)
(* reports nothing and the list holds consumed indices only.               *)
(***************************************************************************)
C29_StaleIndicesDeleted ==
  InCycle =>
    /\ cycle.stale \subseteq LeftPending
    /\ cycleErr = "nil" => Range(indicesToDelete) = ConsumedIndices \cup cycle.stale
    /\ cfg.MultipartMaxAge = 0 =>
         (cycle.stale = {} /\ Range(indicesToDelete) \subseteq ConsumedIndices)
    /\ (pc = "cycle_ret" /\ cycleErr = "nil" /\ ~cfg.DryRun) =>
         cycle.stale \subseteq cycle.deletes
    /\ (cycle.stale # {} /\ messages = <<>> /\ ~cfg.DryRun) => pc \in {"delete", "cycle_ret"}

\* A cycle that listed a lone stale part and nothing else has deleted it.
C29_Witness ==
  /\ pc = "cycle_ret"
  /\ cfg.MultipartMaxAge > 0
  /\ messages = <<>>
  /\ cycle.stale = {1}
  /\ indicesToDelete = <<1>>
  /\ cycle.deletes = {1}
  /\ store[1] = Gone

(***************************************************************************)
(* C31: one diagnostics run issues AT+CPIN? at most 5 times and stops at   *)
(* the first attempt that succeeds (failures before it, plus one); when    *)
(* all 5 attempts fail the verdict is SimNotDetected whether AT+CCID       *)
(* succeeds or not; with fewer than 5 failures the failed queries decide   *)
(* nothing: the verdict is that of the answered status.                    *)
(***************************************************************************)
C31_SimQueryBounded ==
  (diag.phase = "done" /\ diag.script.at = "ok") =>
    LET r == diag.script
        res == diag.result
    IN /\ res.simQueries \in 1..5
       /\ r.simFails < 5 => res.simQueries = r.simFails + 1
       /\ r.simFails >= 5 =>
            (res.simQueries = 5 /\ res.verdict = ErrTypeSimNotDetected)
       /\ (r.simFails < 5 /\ SimVerdict(r.simStatus) # ErrTypeNone) =>
            res.verdict = SimVerdict(r.simStatus)
       /\ (r.simFails < 5 /\ r.simStatus = "READY" /\ r.csq = "17"
             /\ r.creg = <<"1">>) => res.verdict = ErrTypeNone

\* All five AT+CPIN? attempts failed although AT+CCID answers.
C31_Witness ==
  /\ diag.phase = "done"
  /\ diag.script.at = "ok"
  /\ diag.script.simFails = 5
  /\ diag.script.ccid
  /\ diag.result.simQueries = 5
  /\ diag.result.verdict = ErrTypeSimNotDetected

\* The number of parts a live group holds.
GroupSize(k) == Cardinality(DOMAIN collector[k])

\* The part added last under key k.
LastOf(k) ==
  LET at == {i \in DOMAIN arrived : Key(arrived[i]) = k}
  IN arrived[CHOOSE i \in at : \A j \in at : j <= i]

(***************************************************************************)
(* C32 as stated: no live group holds as many parts as the total declared  *)
(* by a part it holds.                                                     *)
(***************************************************************************)
C32_Original ==
  \A k \in DOMAIN collector :
    \A p \in DOMAIN collector[k] : GroupSize(k) # collector[k][p].PDU.total

(***************************************************************************)
(* C32: after any sequence of Add calls every live group holds at least    *)
(* one part and not as many parts as the total declared by the part added  *)
(* to it last (the total Add compares with); the group of the part just    *)
(* added is live exactly when that Add returned nothing; Pending is the    *)
(* number of such groups; and adding a part number the group already holds *)
(* does not change the group's size.                                       *)
(***************************************************************************)
C32_NoCompleteGroupLive ==
  /\ [](\A k \in DOMAIN collector :
          GroupSize(k) >= 1 /\ GroupSize(k) # LastOf(k).total)
  /\ [](lastAdd # NoAdd =>
          (Key(lastAdd.pdu) \in DOMAIN collector
             <=> (lastAdd.assembled = NoMessage /\ ~lastAdd.panic)))
  /\ [](Pending(collector) =
          Cardinality({k \in DOMAIN collector :
                         GroupSize(k) >= 1 /\ GroupSize(k) # LastOf(k).total}))
  /\ [][\A k \in DOMAIN collector :
          (/\ Len(arrived') = Len(arrived) + 1
           /\ Key(arrived'[Len(arrived')]) = k
           /\ arrived'[Len(arrived')].part \in DOMAIN collector[k]
           /\ k \in DOMAIN collector')
          => Cardinality(DOMAIN collector'[k]) = GroupSize(k)]_vars

\* A part number was added twice in a row to a group that stays live with
\* two parts.
C32_Witness ==
  /\ Len(arrived) = 3
  /\ arrived[3].part = arrived[2].part
  /\ \E k \in DOMAIN collector :
       /\ \A i \in 1..3 : Key(arrived[i]) = k
       /\ GroupSize(k) = 2

(***************************************************************************)
(* C33: within one poll cycle AT+CMGD is issued at most once per stored    *)
(* index, also when the index occurs more than once in the cycle's         *)
(* deletion list (an entry listed twice).                                  *)
(***************************************************************************)
C33_OneDeletePerIndex ==
  \A i, j \in DOMAIN cycle.issued :
    cycle.issued[i] = cycle.issued[j] => i = j

\* The deletion loop ran to its end over a list that names an index twice.
C33_Witness ==
  /\ pc = "cycle_ret"
  /\ cycle.issued # <<>>
  /\ \E i, j \in DOMAIN indicesToDelete :
       i # j /\ indicesToDelete[i] = indicesToDelete[j]

(***************************************************************************)
(* C34: a health check that ends the session straight from the select ends *)
(* it with ModemNotResponding whatever the consecutive-failure counter is  *)
(* and without counting; one that escalates leaves the counter alone and   *)
(* runs the diagnostics, whose failure verdict ends the session and whose  *)
(* healthy return resets the counter to 0 and goes on polling; a check     *)
(* that passes resets the counter to 0.                                    *)
(***************************************************************************)
C34_HealthCheck ==
  /\ [][(pc = "select" /\ pc' = "session_end" /\ verdict' # ErrTypeNone) =>
          (/\ verdict' = ErrTypeModemNotResponding
           /\ consecutiveTimeouts' = consecutiveTimeouts)]_vars
  /\ [][(pc = "select" /\ pc' = "diag") =>
          (diagCaller' = "health" /\ consecutiveTimeouts' = consecutiveTimeouts)]_vars
  /\ [][(pc = "select" /\ pc' = "select" /\ cancelled' = cancelled /\ store' = store)
          => consecutiveTimeouts' = 0]_vars
  /\ [][(pc = "diag" /\ diagCaller = "health" /\ pc' # pc) =>
          \/ pc' = "session_end" /\ verdict' \in FailureTypes
               /\ consecutiveTimeouts' = consecutiveTimeouts
          \/ pc' = "select" /\ consecutiveTimeouts' = 0 /\ verdict' = verdict]_vars

\* A health check escalated to the diagnostics after two failed poll cycles.
C34_Witness ==
  /\ pc = "diag"
  /\ diagCaller = "health"
  /\ consecutiveTimeouts = 2

(***************************************************************************)
(* C35: for every header size udhLen in 1..256 of a 7-bit message the fill *)
(* bit count is (7 - (8*udhLen mod 7)) mod 7, lies in 0..6, and the header *)
(* bits plus the fill bits are exactly the bits of the septets taken off   *)
(* the declared length, 7 * ((8*udhLen + 6) div 7): the decoder starts at  *)
(* the first text septet.                                                  *)
(***************************************************************************)
C35_FillBitsAlign ==
  septets # NoAlign =>
    LET u == septets.udhLen
        f == septets.fillBits
    IN /\ u \in 1..256
       /\ f \in 0..6
       /\ f = (7 - ((8 * u) % 7)) % 7
       /\ septets.udhSeptets = (8 * u + 6) \div 7
       /\ 8 * u + f = 7 * septets.udhSeptets

\* A header of 7 bytes needs no fill bit: its 56 bits are 8 septets.
C35_Witness ==
  /\ septets.udhLen = 7
  /\ septets.fillBits = 0
  /\ septets.udhSeptets = 8

(***************************************************************************)
(* C36: when the send of a failure or recovery notification fails for a    *)
(* chat, the call returns false and the announced kind stays what it was.  *)
(* A kind becomes the announced one only by a NotifyError for it that was  *)
(* sent, and the announced kind is cleared only by a NotifyRecovery that   *)
(* was sent; so at its next occurrence the kind (or the recovery) is       *)
(* handed to the sink again, for every chat, those that received it        *)
(* before included.                                                        *)
(***************************************************************************)
C36_FailedNotificationRetried ==
  /\ [](lastCall.failed # {} =>
          (/\ lastCall.dispatched
           /\ ~lastCall.sent
           /\ lastErrorType = lastCall.before
           /\ lastCall.op = "error" => lastErrorType # lastCall.kind
           /\ lastCall.op = "recovery" => lastErrorType # ErrTypeNone))
  /\ [][(lastErrorType' # lastErrorType /\ lastErrorType' # ErrTypeNone) =>
          (/\ lastCall'.op = "error"
           /\ lastCall'.kind = lastErrorType'
           /\ lastCall'.sent)]_vars
  /\ [][(lastErrorType' # lastErrorType /\ lastErrorType' = ErrTypeNone) =>
          (lastCall'.op = "recovery" /\ lastCall'.sent)]_vars
  /\ [][(lastCall' # lastCall /\ lastCall'.op = "error"
           /\ lastCall'.kind # lastErrorType) =>
          (lastCall'.dispatched /\ lastCall'.reached = SinkSends(cfg))]_vars
  /\ [][(lastCall' # lastCall /\ lastCall'.op = "recovery"
           /\ lastErrorType # ErrTypeNone) =>
          (lastCall'.dispatched /\ lastCall'.reached = SinkSends(cfg))]_vars

\* An alert reached the first chat and failed for the second.
C36_Witness ==
  /\ lastCall.op = "error"
  /\ cfg.NumChats = 2
  /\ lastCall.failed = {2}
  /\ lastCall.reached = {1, 2}
  /\ ~lastCall.sent
  /\ lastErrorType # lastCall.kind

\* The positions of the polling loop and of the actions it runs.
Polling == pc \in {"select", "list", "send", "delete", "cycle_ret"}

(***************************************************************************)
(* C37: while a session polls, consecutiveTimeouts is in 0..2; inside the  *)
(* polling loop it goes back to 0 only when a poll cycle returned success, *)
(* when a health check passed, or when the diagnostics of a health check   *)
(* came back healthy; a poll cycle that failed at the sink (delivery       *)
(* failure, cancellation) or with a write failure leaves it as it was and  *)
(* the polling goes on.                                                    *)
(***************************************************************************)
C37_CounterKeptAcrossOtherFailures ==
  /\ [](Polling => consecutiveTimeouts \in 0..2)
  /\ []((pc = "diag" /\ diagCaller # "start") => consecutiveTimeouts \in 0..2)
  /\ [][(consecutiveTimeouts # 0 /\ consecutiveTimeouts' = 0
           /\ (Polling \/ (pc = "diag" /\ diagCaller # "start"))) =>
          \/ pc = "cycle_ret" /\ cycleErr = "nil"
          \/ pc = "select" /\ pc' = "select"
          \/ pc = "diag" /\ diagCaller = "health" /\ pc' = "select"]_vars
  /\ [][(pc = "cycle_ret" /\ pc' # pc
           /\ cycleErr \in {"DeliveryFailed", ErrWriteFailed}) =>
          (consecutiveTimeouts' = consecutiveTimeouts /\ pc' = "select")]_vars

\* A delivery failure is about to be handled after two timeouts in a row.
C37_Witness ==
  /\ pc = "cycle_ret"
  /\ cycleErr = "DeliveryFailed"
  /\ consecutiveTimeouts = 2

\* The answer to the last AT+CREG? the finished call made.
LastAnswer == Answer(diag.script.creg, diag.result.polls)

(***************************************************************************)
(* C38 as stated: with the SIM ready, a registration query that fails or   *)
(* whose response holds no parsable registration line (no +CREG: line, or  *)
(* one without a status) ends the run healthy.                             *)
(***************************************************************************)
C38_Original ==
  (SimReadyRun /\ LastAnswer \in {"fail", "nomarker", "nostat"}) =>
    diag.result.verdict = ErrTypeNone

(***************************************************************************)
(* C38: with the SIM ready, a registration query that fails, or whose      *)
(* response holds no +CREG: line, is the last query of the run, no wait    *)
(* follows it and the run returns no error (when it is the first query no  *)
(* grace wait is made at all); a +CREG: line without a status field counts *)
(* as checked and not registered: no wait follows and the verdict is       *)
(* NetworkNotRegistered.                                                   *)
(***************************************************************************)
C38_FailedQueryIsUnchecked ==
  SimReadyRun =>
    /\ \A i \in 1..diag.result.polls :
         Answer(diag.script.creg, i) \in {"fail", "nomarker", "nostat"} =>
           i = diag.result.polls
    /\ Answer(diag.script.creg, 1) \in {"fail", "nomarker", "nostat"} =>
         diag.result.polls = 1
    /\ LastAnswer \in {"fail", "nomarker"} =>
         (diag.result.verdict = ErrTypeNone /\ ~diag.result.cancelled)
    /\ LastAnswer = "nostat" =>
         (diag.result.verdict = ErrTypeNetworkNotRegistered /\ ~diag.result.cancelled)

\* The query failed after one grace wait: the run ends healthy.
C38_Witness ==
  /\ SimReadyRun
  /\ diag.script.creg = <<"2", "fail">>
  /\ diag.grace = 2
  /\ diag.elapsed = 0
  /\ diag.result.polls = 2
  /\ diag.result.verdict = ErrTypeNone
  /\ ~diag.result.cancelled

(***************************************************************************)
(* C39: handling a poll cycle whose AT+CMGL=4 failed with a modem ERROR    *)
(* runs the diagnostics, and whatever they return the session ends: with   *)
(* their verdict when they return one, with ModemNotResponding when they   *)
(* come back healthy.  The polling loop is not entered again.              *)
(***************************************************************************)
C39_DeviceErrorEndsSession ==
  /\ [][(pc = "cycle_ret" /\ cycleErr = ErrModemError /\ pc' # pc) =>
          (pc' = "diag" /\ diagCaller' = "handleError")]_vars
  /\ [][(pc = "diag" /\ diagCaller = "handleError" /\ pc' # pc) =>
          (/\ pc' = "session_end"
           /\ diag'.phase = "returned"
           /\ verdict' = IF diag'.verdict # ErrTypeNone
                         THEN diag'.verdict
                         ELSE ErrTypeModemNotResponding)]_vars
  /\ [](diag.phase = "returned" => pc = "session_end")

\* The diagnostics after a modem ERROR came back healthy and the session ended.
C39_Witness ==
  /\ pc = "session_end"
  /\ diag.phase = "returned"
  /\ diag.verdict = ErrTypeNone
  /\ verdict = ErrTypeModemNotResponding

\* The positions of the worker inside a session (runModemLoop has opened the
\* port and has not returned).
InSession == pc \in {"opened", "diag", "setup", "select", "list", "send", "delete", "cycle_ret"}

EndedNotResponding == pc = "session_end" /\ verdict = ErrTypeModemNotResponding

NotRespondingNotified ==
  /\ pc = "retry_wait"
  /\ lastCall.op = "error"
  /\ lastCall.kind = ErrTypeModemNotResponding

\* run has called runModemLoop again after a ModemNotResponding ending, with
\* needReset false: the port is open and no reset was issued, or the port
\* could not be opened.
RestartedWithoutReset ==
  /\ prevEnding = ErrTypeModemNotResponding
  /\ ~needReset
  /\ \/ pc = "diag" /\ diagCaller = "start" /\ ~resetIssued
     \/ pc = "session_end" /\ verdict = ErrTypeSerialPort

====
